---- MODULE Spec2Model ----
(***************************************************************************)
(* A state-machine model of the cache-server node: the multipart upload    *)
(* life cycle (api/server.py), the binary-cache HTTP surface               *)
(* (api/cache.py), the storage multiplexer (storage/manager.py,            *)
(* storage/strategies.py, storage/providers/local.py), the store-path      *)
(* table (database.py, store_path.py), signing (cache/base.py,             *)
(* store_path.py), the remote helper (cache/remote.py) and the retention   *)
(* garbage collector (cache/base.py).                                      *)
(*                                                                         *)
(* Names.  A file name is a record [stem, ext]: "<stem>.nar.<ext>" for     *)
(* ext in {"xz","zst"} and "key.<ext>" for ext in {"priv","pub"}.  Upload  *)
(* ids are uuid4 strings and hashes are digests, so no stem is a substring *)
(* of another name: the substring test `name in file` of                   *)
(* LocalStorage.find is equality on the stem.                              *)
(*                                                                         *)
(* Time.  The clock counts ticks of TickSeconds seconds.                   *)
(***************************************************************************)
EXTENDS Integers, Sequences, FiniteSets, TLC

\* ------------------------------------------------------------------ bounds
MaxUploads == 2
MaxTime == 2
MaxRequests == 2

\* --------------------------------------------------------------- constants
MAX_STORAGE_USAGE_100 == 95
CONSIDERED_NEW_FILE_AGE == 3600
DaySeconds == 86400
TickSeconds == 43200
LATENCY_WEIGHT_10 == 2
LOAD_SCORE_WEIGHT_10 == 8
PingLatency == 1
SlowLatency == 10
MaxLoad == 2
KeySize == 1
BodySize == 10
MaxWorkers == 2
MaxAvailable == 2

\* ----------------------------------------------------------------- domains
Caches == {"c1", "c2"}
Codecs == {"xz", "zst"}
StoreHashes == {"ha", "hb"}
FileHashes == {"fa", "fb"}
Suffixes == {"pkg"}
Bodies == {"b1"}
UploadIds == 1 .. MaxUploads

\* uuid4 of the n-th Initiate
IdStr(n) == "u" \o ToString(n)

\* f"{store_hash}-{store_suffix}"
PackageName(store_hash, store_suffix) == store_hash \o "-" \o store_suffix

PackageNames == {PackageName(h, s) : h \in StoreHashes, s \in Suffixes}

\* cReferences of a narInfoCreate body
RefLists == {<<>>} \cup {<<p>> : p \in PackageNames}

\* The storage table: the ordered back-ends of each cache.
StoragesOf(c) == IF c = "c1" THEN <<"s1", "s2">> ELSE <<"s3">>

Storages == {"s1", "s2", "s3"}

\* statvfs of the back-ends' file systems when nothing else is said
AmpleSpace == [s \in Storages |-> MaxAvailable]

CacheOfStorage(s) == IF s = "s3" THEN "c2" ELSE "c1"

\* jwt.encode({"name": name}, ...): one symbol sequence per cache
TokenOf(c) == <<"jwt", c>>

\* strategy_state: the round-robin cursor, and the split percentages with
\* the type they are stored with: non_int for strings (what `cache create`
\* writes, until the configuration manager rewrites them) and for floats (a
\* configuration file that writes 70.0), which split does not accept as int
NoState == [index |-> 0, split |-> <<>>, non_int |-> FALSE]

\* The binary_cache rows after `cache create` of both caches.
CacheRows ==
    [c \in Caches |->
        IF c = "c1"
        THEN [access |-> "private", retention |-> -1,
              strategy |-> "round-robin", strategy_state |-> NoState]
        ELSE [access |-> "public", retention |-> 1,
              strategy |-> "in-order", strategy_state |-> NoState]]

\* config.standalone
Standalone == FALSE

\* `cache start` has started the garbage_collector and advertise_periodically
\* threads of every cache
LoopsRunning == [c \in Caches |-> [gc |-> TRUE, adv |-> TRUE]]

VARIABLES
    binary_cache,   \* binary_cache table: access, retention, strategy, strategy_state
    files,          \* per back-end directory: file name -> [data, mtime]
    store_path,     \* store_path table, in insertion order
    full,           \* back-ends whose is_full() currently answers true
    mem_state,      \* strategy_state held by each running cache process
    cached_paths,   \* RemoteCacheHelper.cached_paths of each cache process
    metrics,        \* CacheMetrics of each cache process
    dht,            \* the overlay: a set of <<key, value>>
    now,            \* clock, in ticks
    nextId,         \* number of upload ids issued so far
    resp,           \* the last operation: its kind and the status it ended with
    uploads,        \* history: what became of each upload id
    workers,        \* request worker threads inside CacheMetrics.record_request
    storage_table,  \* storage table: the ids of the back-ends that have a row
    available,      \* statvfs: the available bytes of each back-end's file system
    loops           \* the background threads of each cache process that still run

\* what the request handlers of the servers never change
side == <<workers, storage_table, available, loops>>

vars == <<binary_cache, files, store_path, full, mem_state, cached_paths,
          metrics, dht, now, nextId, resp, uploads, workers,
          storage_table, available, loops>>

\* ------------------------------------------------------------ file helpers
NarFile(stem, ext) == [stem |-> stem, ext |-> ext]

KeyPriv == [stem |-> "key", ext |-> "priv"]
KeyPub == [stem |-> "key", ext |-> "pub"]

\* os.listdir
Listing(fs, s) == DOMAIN fs[s]

\* LocalStorage.find(name): the files `name in file` holds for.  os.listdir
\* gives no order, so any of them may be the first match.
StorageFind(fs, s, name) == {f \in Listing(fs, s) : f.stem = name}

\* LocalStorage.new_file / LocalStorage.save: open(path, "wb"); write
WriteFile(fs, s, f, data, t) ==
    [fs EXCEPT ![s] =
        [g \in (DOMAIN fs[s]) \cup {f} |->
            IF g = f THEN [data |-> data, mtime |-> t] ELSE fs[s][g]]]

\* a remove that removes nothing
RemoveFileKeeps(fs, s, f) == fs

\* LocalStorage.remove: os.remove

RemoveFile(fs, s, f) ==
    [fs EXCEPT ![s] = [g \in (DOMAIN fs[s]) \ {f} |-> fs[s][g]]]

\* a rename that leaves the old name in place
RenameFileCopies(fs, s, old, new) ==
    [fs EXCEPT ![s] =
        [g \in (DOMAIN fs[s]) \cup {new} |->
            IF g = new THEN fs[s][old] ELSE fs[s][g]]]

\* LocalStorage.rename: os.rename, which replaces an existing target and
\* keeps the modification time
RenameFile(fs, s, old, new) ==
    [fs EXCEPT ![s] =
        [g \in ((DOMAIN fs[s]) \ {old}) \cup {new} |->
            IF g = new THEN fs[s][old] ELSE fs[s][g]]]

\* StorageManager.find: the first back-end, in list order, with a match
RECURSIVE FirstHolder(_, _, _, _)
FirstHolder(fs, sts, name, i) ==
    IF i > Len(sts) THEN 0
    ELSE IF StorageFind(fs, sts[i], name) # {} THEN i
    ELSE FirstHolder(fs, sts, name, i + 1)

ManagerFind(fs, c, name) ==
    LET i == FirstHolder(fs, StoragesOf(c), name, 1)
    IN  IF i = 0 THEN {}
        ELSE {[file |-> f, storage |-> StoragesOf(c)[i]] :
                f \in StorageFind(fs, StoragesOf(c)[i], name)}

\* an in_order that returns the first back-end whatever its state
InOrderFirst(sts, fl, i) == IF i > Len(sts) THEN 0 ELSE i

\* a round_robin that leaves the cursor where it is
RoundRobinStays(sts, fl, state) ==
    LET index == state.index % Len(sts)
    IN  IF sts[index + 1] \in fl
        THEN [pick |-> IF \E k \in 1 .. Len(sts) : sts[k] \notin fl
                       THEN CHOOSE k \in 1 .. Len(sts) :
                                /\ sts[k] \notin fl
                                /\ \A j \in 1 .. (k - 1) : sts[j] \in fl
                       ELSE 0,
              state |-> state]
        ELSE [pick |-> index + 1, state |-> state]

\* ------------------------------------------------------ placement strategy
\* in_order: the first back-end that is not full, 0 when all are full
RECURSIVE in_order(_, _, _)
in_order(sts, fl, i) ==
    IF i > Len(sts) THEN 0
    ELSE IF sts[i] \notin fl THEN i
    ELSE in_order(sts, fl, i + 1)

\* round_robin: [pick, state]; pick = 0 stands for the ValueError of in_order
round_robin(sts, fl, state) ==
    LET index == state.index % Len(sts)
        st2 == [state EXCEPT !.index = index + 1]
    IN  IF sts[index + 1] \in fl
        THEN [pick |-> in_order(sts, fl, 1), state |-> st2]
        ELSE [pick |-> index + 1, state |-> st2]

\* LocalStorage.get_used_space: the sizes of the files of a back-end
FileBytes(f, rec) ==
    IF f.stem = "key" THEN KeySize ELSE IF rec.data = "" THEN 0 ELSE BodySize

RECURSIVE SumBytes(_, _)
SumBytes(dir, names) ==
    IF names = {} THEN 0
    ELSE LET f == CHOOSE g \in names : TRUE
         IN  FileBytes(f, dir[f]) + SumBytes(dir, names \ {f})

get_used_space(fs, s) == SumBytes(fs[s], DOMAIN fs[s])

RECURSIVE TotalUsed(_, _, _)
TotalUsed(fs, sts, i) ==
    IF i > Len(sts) THEN 0 ELSE get_used_space(fs, sts[i]) + TotalUsed(fs, sts, i + 1)

\* the loop of split from back-end i on: [index, least_used, fallback],
\* deltas multiplied by total_used; fallback when splits[i] is not an int
RECURSIVE SplitLoop(_, _, _, _, _, _)
SplitLoop(sts, state, fs, total, i, acc) ==
    IF i > Len(sts) THEN acc
    ELSE IF state.non_int THEN [acc EXCEPT !.fallback = TRUE]
    ELSE LET delta == state.split[i] * total - 100 * get_used_space(fs, sts[i])
         IN  SplitLoop(sts, state, fs, total, i + 1,
                       IF delta > acc.least_used
                       THEN [acc EXCEPT !.least_used = delta, !.index = i]
                       ELSE acc)

\* split: pick = 0 stands for an exception (ZeroDivisionError, IndexError,
\* or the ValueError of in_order)
split(sts, fl, state, fs) ==
    LET total == TotalUsed(fs, sts, 1)
        r == SplitLoop(sts, state, fs, total, 1,
                       [index |-> 1, least_used |-> 0, fallback |-> FALSE])
    IN  IF \/ total = 0
           \/ state.non_int /\ state.split = <<>>
           \/ ~state.non_int /\ Len(state.split) < Len(sts)
        THEN [pick |-> 0, state |-> state]
        ELSE IF r.fallback \/ sts[r.index] \in fl
        THEN [pick |-> in_order(sts, fl, 1), state |-> state]
        ELSE [pick |-> r.index, state |-> state]

\* Strategy.func
StrategyFunc(strategy, sts, fl, state, fs) ==
    IF strategy = "round-robin" THEN round_robin(sts, fl, state)
    ELSE IF strategy = "split" THEN split(sts, fl, state, fs)
    ELSE [pick |-> in_order(sts, fl, 1), state |-> state]

\* StorageManager._choose_storage: [ok, storage, state, persist].  With one
\* back-end the strategy is not consulted and nothing is persisted; when the
\* strategy raises, the state is not persisted.
choose_storage(c, strategy, fl, state, fs) ==
    LET sts == StoragesOf(c)
    IN  IF Len(sts) = 1
        THEN [ok |-> sts[1] \notin fl, storage |-> sts[1],
              state |-> state, persist |-> FALSE]
        ELSE LET r == StrategyFunc(strategy, sts, fl, state, fs)
             IN  IF r.pick = 0
                 THEN [ok |-> FALSE, storage |-> sts[1],
                       state |-> r.state, persist |-> FALSE]
                 ELSE [ok |-> TRUE, storage |-> sts[r.pick],
                       state |-> r.state, persist |-> TRUE]

\* database.update_storage_strategy_state
PersistState(bc, c, state) == [bc EXCEPT ![c].strategy_state = state]

\* StorageManager.read: the back-end is the one _choose_storage returns, and
\* the file is opened there; [ok, storage, state, persist]
ManagerRead(c, strategy, fl, state, fs, f) ==
    LET ch == choose_storage(c, strategy, fl, state, fs)
    IN  [ch EXCEPT !.ok = ch.ok /\ f \in Listing(fs, ch.storage)]

\* ---------------------------------------------------------------- requests
\* No Authorization header
NoAuth == <<"absent">>

\* Authorization header of a node-level POST: absent, or "Bearer <token>"
PostAuths == {NoAuth} \cup {TokenOf(c) : c \in Caches}

\* Authorization header of a cache-level request: absent, or the base-64 of
\* "<user>:<token>", kept here as the decoded symbol sequence
Users == {<<>>, <<"u">>}
Credentials(user, token) == user \o <<":">> \o token
CacheAuths == {NoAuth} \cup {Credentials(u, TokenOf(c)) : u \in Users, c \in Caches}

\* DHT keys and values
HashKey(h) == [kind |-> "hash", name |-> h, ext |-> ""]
FileKey(f) == [kind |-> "file", name |-> f.stem, ext |-> f.ext]
CacheKey(id) == [kind |-> "cache", name |-> id, ext |-> ""]
IdValue(c) == [kind |-> "id", id |-> c, url |-> "", has_metrics |-> FALSE, load_score |-> 0]

\* json.dumps of the descriptor a cache advertises
Descriptor(id, url, has_metrics, load_score) ==
    [kind |-> "desc", id |-> id, url |-> url, has_metrics |-> has_metrics,
     load_score |-> load_score]

\* DHTClient.put
DhtPut(d, key, value) == IF Standalone THEN d ELSE d \cup {<<key, value>>}

\* status 0: the handler raised and no response was written
Response(op, status) == [op |-> op, status |-> status]

\* history record of an upload id: st in none, reserved, completed, aborted;
\* body is the body of the last PUT that was answered 201
NoUpload == [st |-> "none", body |-> ""]

\* the request worker threads of the cache processes (ThreadingHTTPServer)
Workers == 1 .. MaxWorkers

IdleWorkers ==
    [w \in Workers |-> [pc |-> "idle", cache |-> "c1", is_hit |-> FALSE, reg |-> 0]]

\* ------------------------------------------------------------------- Init
\* The overlay holds what the peers published: their descriptors, p2's
\* without metrics, and an owner mapping for each store hash.
InitDht ==
    {<<HashKey(h), IdValue(p)>> : h \in StoreHashes, p \in {"p1", "p2"}}
    \cup {<<CacheKey("p1"), Descriptor("p1", "http://p1", TRUE, 1)>>,
          <<CacheKey("p2"), Descriptor("p2", "http://p2", FALSE, 0)>>}

InitFiles ==
    [s \in Storages |->
        [f \in {KeyPriv, KeyPub} |->
            [data |-> CacheOfStorage(s), mtime |-> 0]]]

Init ==
    /\ binary_cache = CacheRows
    /\ files = InitFiles
    /\ store_path = <<>>
    /\ full = {}
    /\ mem_state = [c \in Caches |-> CacheRows[c].strategy_state]
    /\ cached_paths = [c \in Caches |-> {}]
    /\ metrics = [c \in Caches |-> [request_count |-> 0, hit_count |-> 0,
                                    miss_count |-> 0]]
    /\ dht = InitDht
    /\ now = 0
    /\ nextId = 0
    /\ resp = Response("init", 0)
    /\ uploads = [i \in UploadIds |-> NoUpload]
    /\ workers = IdleWorkers
    /\ storage_table = Storages
    /\ loops = LoopsRunning
    /\ available = AmpleSpace

\* ---------------------------------------------------------------- actions
\* The clock advances.
Tick ==
    /\ now < MaxTime
    /\ now' = now + 1
    /\ UNCHANGED <<side, binary_cache, files, store_path, full, mem_state,
                   cached_paths, metrics, dht, nextId, resp, uploads>>

\* The check at the top of do_POST:
\* self.headers["Authorization"].split()[1] != cache.token.
\* 0 when the header is absent (AttributeError), 401 on a mismatch, 200 to go on.
PostAuthStatus(c, auth) ==
    IF auth = NoAuth THEN 0 ELSE IF auth # TokenOf(c) THEN 401 ELSE 200

\* A POST, to any path of the cache, that does not pass the check
PostRejected(c, auth) ==
    /\ PostAuthStatus(c, auth) # 200
    /\ resp' = Response("post", PostAuthStatus(c, auth))
    /\ UNCHANGED <<side, binary_cache, files, store_path, full, mem_state,
                   cached_paths, metrics, dht, now, nextId, uploads>>

\* POST /api/v1/cache/<name>/multipart-nar?compression=<codec>, with the token
Initiate(c, codec) ==
    /\ nextId < MaxUploads
    /\ LET id == IdStr(nextId + 1)
           row == binary_cache[c]
           ch == choose_storage(c, row.strategy, full, row.strategy_state, files)
           filename == NarFile(id, codec)
       IN  IF ~ch.ok
           THEN \* _choose_storage raises: the id is spent, nothing is written
                /\ resp' = Response("initiate", 0)
                /\ nextId' = nextId + 1
                /\ UNCHANGED <<side, binary_cache, files, dht, uploads>>
           ELSE /\ binary_cache' = IF ch.persist
                                   THEN PersistState(binary_cache, c, ch.state)
                                   ELSE binary_cache
                /\ files' = WriteFile(files, ch.storage, filename, "", now)
                /\ dht' = DhtPut(dht, FileKey(filename), IdValue(c))
                /\ nextId' = nextId + 1
                /\ uploads' = [uploads EXCEPT ![nextId + 1].st = "reserved"]
                /\ resp' = Response("initiate", 200)
    /\ UNCHANGED <<side, store_path, full, mem_state, cached_paths, metrics, now>>

\* a record_request that counts hits only
RecordHitsOnly(m, is_hit) ==
    [request_count |-> m.request_count + 1,
     hit_count |-> m.hit_count + (IF is_hit THEN 1 ELSE 0),
     miss_count |-> m.miss_count]

\* CacheMetrics.record_request
record_request(m, is_hit) ==
    [request_count |-> m.request_count + 1,
     hit_count |-> m.hit_count + (IF is_hit THEN 1 ELSE 0),
     miss_count |-> m.miss_count + (IF is_hit THEN 0 ELSE 1)]

Record(c, is_hit) == metrics' = [metrics EXCEPT ![c] = record_request(@, is_hit)]

\* The request workers of the cache processes take at most MaxRequests requests.
CanServe == metrics["c1"].request_count + metrics["c2"].request_count < MaxRequests

\* POST /api/v1/cache/<name>/multipart-nar/<id>, with the token: the upload URL
UploadUrl(c, n) ==
    /\ resp' = Response("upload-url", 200)
    /\ UNCHANGED <<side, binary_cache, files, store_path, full, mem_state,
                   cached_paths, metrics, dht, now, nextId, uploads>>

\* The status do_PUT answers with.  It reads no Authorization header.
PutStatus(c, n, auth) ==
    IF ManagerFind(files, c, IdStr(n)) = {} THEN 400 ELSE 201

\* PUT /<id> on the cache's own port
PutBody(c, n, body, auth) ==
    /\ CanServe
    /\ LET found == ManagerFind(files, c, IdStr(n))
       IN  IF PutStatus(c, n, auth) = 400
           THEN /\ resp' = Response("put", 400)
                /\ Record(c, FALSE)
                /\ UNCHANGED <<side, files, dht, uploads>>
           ELSE \E fd \in found :
                /\ dht' = DhtPut(dht, FileKey(fd.file), IdValue(c))
                /\ files' = WriteFile(files, fd.storage, fd.file, body, now)
                /\ resp' = Response("put", 201)
                /\ Record(c, TRUE)
                /\ uploads' = [uploads EXCEPT ![n].body = body]
    /\ UNCHANGED <<side, binary_cache, store_path, full, mem_state, cached_paths,
                   now, nextId>>

\* A text is a sequence of non-empty symbols; " " and "," are symbols.
\* sep.join(list)
RECURSIVE JoinRaw(_, _)
JoinRaw(list, sep) ==
    IF list = <<>> THEN <<>>
    ELSE IF Len(list) = 1 THEN <<list[1]>>
    ELSE <<list[1], sep>> \o JoinRaw(Tail(list), sep)

Join(list, sep) == SelectSeq(JoinRaw(list, sep), LAMBDA x : x # "")

\* text.split(" "): the empty text gives [""]
RECURSIVE SplitFrom(_, _)
SplitFrom(t, cur) ==
    IF t = <<>> THEN <<cur>>
    ELSE IF Head(t) = " " THEN <<cur>> \o SplitFrom(Tail(t), "")
    ELSE SplitFrom(Tail(t), cur \o Head(t))

SplitSp(t) == SplitFrom(t, "")

\* a row that records the first back-end whatever back-end holds the file
StorePathRowOnFirst(sh, suffix, fh, refs, storage) ==
    [store_hash |-> sh, store_suffix |-> suffix, file_hash |-> fh,
     file_size |-> 1, nar_hash |-> "sha256:nar", nar_size |-> 1,
     deriver |-> "drv", refs |-> Join(refs, " "), storage_id |-> "s1"]

\* database.insert_store_path
StorePathRow(sh, suffix, fh, refs, storage) ==
    [store_hash |-> sh, store_suffix |-> suffix, file_hash |-> fh,
     file_size |-> 1, nar_hash |-> "sha256:nar", nar_size |-> 1,
     deriver |-> "drv", refs |-> Join(refs, " "), storage_id |-> storage]

\* The status Complete and Abort answer with: 400 when no file of the
\* cache carries the id
FinishStatus(c, n) ==
    IF ManagerFind(files, c, IdStr(n)) = {} THEN 400 ELSE 200

\* POST /api/v1/cache/<name>/multipart-nar/<id>/complete, with the token
Complete(c, n, sh, suffix, fh, refs) ==
    /\ LET found == ManagerFind(files, c, IdStr(n))
       IN  IF FinishStatus(c, n) # 200
           THEN /\ resp' = Response("complete", FinishStatus(c, n))
                /\ UNCHANGED <<side, files, store_path, dht, uploads>>
           ELSE \E fd \in found :
                /\ store_path' = Append(store_path,
                                    StorePathRow(sh, suffix, fh, refs, fd.storage))
                /\ dht' = IF binary_cache[c].access = "public"
                          THEN DhtPut(dht, HashKey(sh), IdValue(c))
                          ELSE dht
                /\ files' = RenameFile(files, fd.storage, fd.file,
                                       NarFile(fh, fd.file.ext))
                /\ resp' = Response("complete", 200)
                /\ uploads' = [uploads EXCEPT ![n].st = "completed"]
    /\ UNCHANGED <<side, binary_cache, full, mem_state, cached_paths, metrics, now, nextId>>

\* an abort that also deletes the store-path records of the cache
AbortDropsRecords(c, n) ==
    /\ store_path' = SelectSeq(store_path, LAMBDA row : CacheOfStorage(row.storage_id) # c)
    /\ resp' = Response("abort", FinishStatus(c, n))
    /\ UNCHANGED <<side, binary_cache, files, full, mem_state, cached_paths,
                   metrics, dht, now, nextId, uploads>>

\* POST /api/v1/cache/<name>/multipart-nar/<id>/abort, with the token
Abort(c, n) ==
    /\ LET found == ManagerFind(files, c, IdStr(n))
       IN  IF FinishStatus(c, n) # 200
           THEN /\ resp' = Response("abort", FinishStatus(c, n))
                /\ UNCHANGED <<side, files, uploads>>
           ELSE \E fd \in found :
                /\ files' = RemoveFile(files, fd.storage, fd.file)
                /\ resp' = Response("abort", 200)
                /\ uploads' = [uploads EXCEPT ![n].st = "aborted"]
    /\ UNCHANGED <<side, binary_cache, store_path, full, mem_state, cached_paths,
                   metrics, dht, now, nextId>>

\* ------------------------------------------------------- narinfo, signing
\* database.get_store_path_row: the index of db_result[0], 0 when no row
RECURSIVE FirstRow(_, _, _, _, _)
FirstRow(sp, storage_ids, store_hash, file_hash, i) ==
    IF i > Len(sp) THEN 0
    ELSE IF /\ sp[i].storage_id \in storage_ids
            /\ IF store_hash # "" THEN sp[i].store_hash = store_hash
                                  ELSE sp[i].file_hash = file_hash
         THEN i
    ELSE FirstRow(sp, storage_ids, store_hash, file_hash, i + 1)

get_store_path_row(sp, storage_ids, store_hash, file_hash) ==
    FirstRow(sp, storage_ids, store_hash, file_hash, 1)

StoragesSet(c) == {StoragesOf(c)[i] : i \in 1..Len(StoragesOf(c))}

\* StorePath.get(cache_name, store_hash, file_hash): a row of the cache's back-ends
StorePathGet(c, store_hash, file_hash) ==
    get_store_path_row(store_path, StoragesSet(c), store_hash, file_hash)

\* StorePath.find(store_hash, file_hash): a row of any cache of the node
StorePathFind(store_hash, file_hash) ==
    get_store_path_row(store_path, Storages, store_hash, file_hash)

\* the references attribute StorePath.get builds: row[8].split(" ")
References(row) == SplitSp(row.refs)

NixStore(list) == [i \in 1..Len(list) |-> "/nix/store/" \o list[i]]

\* StorePath.fingerprint and BinaryCache.fingerprint
fingerprint(references, store_path_name, nar_hash, nar_size) ==
    [store_path |-> store_path_name, nar_hash |-> nar_hash, nar_size |-> nar_size,
     refs |-> Join(NixStore(references), ",")]

\* an ed25519 signature: the signing key and the signed message
Signed(key, msg) == [key |-> key, msg |-> msg]

NoSig == Signed("", fingerprint(<<>>, "", "", ""))

\* StorePath.signature: key.priv is read from the record's back-end
signature(fs, row) ==
    Signed(fs[row.storage_id][KeyPriv].data,
           fingerprint(References(row),
                       "/nix/store/" \o PackageName(row.store_hash, row.store_suffix),
                       row.nar_hash, ToString(row.nar_size)))

\* StorePath.get_narinfo, for the file f that storage.find(file_hash) returned
get_narinfo(fs, row, f) ==
    [StorePath |-> "/nix/store/" \o PackageName(row.store_hash, row.store_suffix),
     URL |-> NarFile(row.file_hash, f.ext),
     Compression |-> f.ext,
     FileHash |-> "sha256:" \o row.file_hash,
     FileSize |-> ToString(row.file_size),
     NarHash |-> row.nar_hash,
     NarSize |-> ToString(row.nar_size),
     Deriver |-> row.deriver,
     System |-> "x86_64-linux",
     References |-> Join(References(row), " "),
     Sig |-> signature(fs, row)]

NoNarinfo ==
    [StorePath |-> "", URL |-> NarFile("", ""), Compression |-> "", FileHash |-> "",
     FileSize |-> "", NarHash |-> "", NarSize |-> "", Deriver |-> "", System |-> "",
     References |-> <<>>, Sig |-> NoSig]

\* BinaryCache._parse_narinfo_text: the Sig line is dropped and References
\* becomes a list, empty for an empty value
parse_narinfo_text(n) ==
    [StorePath |-> n.StorePath, URL |-> n.URL, Compression |-> n.Compression,
     FileHash |-> n.FileHash, FileSize |-> n.FileSize, NarHash |-> n.NarHash,
     NarSize |-> n.NarSize, Deriver |-> n.Deriver, System |-> n.System,
     References |-> IF n.References = <<>> \/ n.References = <<" ">>
                    THEN <<>> ELSE SplitSp(n.References)]

\* the all(...) test that ends _parse_narinfo_text
ParsedOk(d) ==
    \/ d.References = <<>>
    \/ /\ d.StorePath # "" /\ d.URL.stem # "" /\ d.Compression # ""
       /\ d.FileHash # "" /\ d.FileSize # "" /\ d.NarHash # ""
       /\ d.NarSize # "" /\ d.Deriver # "" /\ d.System # ""

\* BinaryCache.sign, with the key.priv content self.storage.read returned:
\* the parsed dictionary with its Sig
sign(key, n) ==
    LET d == parse_narinfo_text(n)
    IN  [StorePath |-> d.StorePath, URL |-> d.URL, Compression |-> d.Compression,
         FileHash |-> d.FileHash, FileSize |-> d.FileSize, NarHash |-> d.NarHash,
         NarSize |-> d.NarSize, Deriver |-> d.Deriver, System |-> d.System,
         References |-> d.References,
         Sig |-> Signed(key, fingerprint(d.References, d.StorePath,
                                         d.NarHash, d.NarSize))]

\* RemoteCacheHelper.narinfo_dict_to_bytes: a non-empty References list is
\* joined, an empty one is formatted by the f-string as the two characters []
narinfo_dict_to_bytes(d) ==
    [d EXCEPT !.References = IF d.References # <<>> THEN Join(d.References, " ")
                             ELSE <<"[]">>]

\* ------------------------------------------------------------------ peers
\* caches of other nodes
Peers == {"p1", "p2"}

PeerUrl(p) == "http://" \o p

\* float('inf')
Inf == -1

\* a < b over the numbers and Inf
Lt(a, b) == a # Inf /\ (b = Inf \/ a < b)

\* the narinfo a peer serves for a store hash it holds
PeerNarinfo(p, sh) ==
    LET refs == IF sh = "ha" THEN <<>> ELSE <<PackageName("ha", "pkg")>>
        name == "/nix/store/" \o PackageName(sh, "pkg")
    IN  [StorePath |-> name, URL |-> NarFile("fr", "xz"), Compression |-> "xz",
         FileHash |-> "sha256:fr", FileSize |-> "1", NarHash |-> "sha256:nar",
         NarSize |-> "1", Deriver |-> "drv", System |-> "x86_64-linux",
         References |-> Join(refs, " "),
         Sig |-> Signed(p, fingerprint(refs, name, "sha256:nar", "1"))]

\* what the peers do during one request: which of them answer the ping, which
\* id the DHT lists first, and the status of the fetch (0: transport error).
\* Every ping takes PingLatency ms.
PeerEnvs ==
    [alive : SUBSET Peers, first : Peers, status : {200, 404, 0},
     latency : {[p \in Peers |-> PingLatency]}]

\* the same, with pings that take PingLatency or SlowLatency ms
RemoteEnvs ==
    [alive : SUBSET Peers, first : Peers, status : {200, 404, 0},
     latency : [Peers -> {PingLatency, SlowLatency}]]

\* DHTClient.get: the values under a key, in the order of the environment
RECURSIVE SetToSeq(_, _)
SetToSeq(S, first) ==
    IF S = {} THEN <<>>
    ELSE LET x == IF \E y \in S : y.id = first
                  THEN CHOOSE y \in S : y.id = first
                  ELSE CHOOSE y \in S : TRUE
         IN  <<x>> \o SetToSeq(S \ {x}, first)

DhtGet(d, key, first) ==
    IF Standalone THEN <<>>
    ELSE SetToSeq({kv[2] : kv \in {e \in d : e[1] = key}}, first)

\* a loop that ends at the first peer whose ping fails
RECURSIVE BestRemoteStops(_, _, _, _, _)
BestRemoteStops(d, ids, env, i, acc) ==
    IF i > Len(ids) THEN acc
    ELSE LET remote_cache == DhtGet(d, CacheKey(ids[i].id), env.first)
             got == [acc EXCEPT !.gets = @ + 1]
         IN  IF remote_cache = <<>> THEN BestRemoteStops(d, ids, env, i + 1, got)
             ELSE LET info == remote_cache[Len(remote_cache)]
                      pinged == [got EXCEPT !.pings = @ + 1]
                  IN  IF info.id \notin env.alive THEN pinged
                      ELSE BestRemoteStops(d, ids, env, i + 1,
                               [pinged EXCEPT !.lowest = 0, !.best = info.url])

\* RemoteCacheHelper.get_remote_cache_url, the loop over remote_cache_ids:
\* [best, lowest, gets, pings] after the candidates ids[i..]
RECURSIVE BestRemote(_, _, _, _, _)
BestRemote(d, ids, env, i, acc) ==
    IF i > Len(ids) THEN acc
    ELSE LET remote_cache == DhtGet(d, CacheKey(ids[i].id), env.first)
             got == [acc EXCEPT !.gets = @ + 1]
         IN  IF remote_cache = <<>> THEN BestRemote(d, ids, env, i + 1, got)
             ELSE LET info == remote_cache[Len(remote_cache)]
                      pinged == [got EXCEPT !.pings = @ + 1]
                      load_score == IF info.has_metrics THEN info.load_score ELSE Inf
                      score == IF load_score = Inf THEN Inf
                               ELSE env.latency[info.id] * LATENCY_WEIGHT_10
                                    + load_score * LOAD_SCORE_WEIGHT_10
                  IN  IF info.id \notin env.alive
                      THEN BestRemote(d, ids, env, i + 1, pinged)
                      ELSE IF Lt(score, pinged.lowest)
                      THEN BestRemote(d, ids, env, i + 1,
                               [pinged EXCEPT !.lowest = IF load_score = Inf THEN Inf
                                                         ELSE load_score * 10,
                                              !.best = info.url])
                      ELSE BestRemote(d, ids, env, i + 1, pinged)

\* RemoteCacheHelper.get_remote_cache_url: best is "" for None
get_remote_cache_url(d, store_hash, env) ==
    LET remote_cache_ids == DhtGet(d, HashKey(store_hash), env.first)
        start == [best |-> "", lowest |-> Inf, gets |-> 1, pings |-> 0]
    IN  IF remote_cache_ids = <<>> THEN start
        ELSE BestRemote(d, remote_cache_ids, env, 1, start)

\* ------------------------------------------------- the cache's HTTP port
\* The check at the top of do_GET and do_HEAD on a private cache:
\* b64decode(self.headers["Authorization"].split()[1]).decode()[1:] != token.
\* 0 when the header is absent (AttributeError).
CacheAuthStatus(c, auth) ==
    IF binary_cache[c].access # "private" THEN 200
    ELSE IF auth = NoAuth THEN 0
    ELSE IF Tail(auth) # TokenOf(c) THEN 401
    ELSE 200

\* What a request does: the status (0: the handler raised), the body or the
\* narinfo sent, the record_request calls, the DHT gets and peer requests
\* made, and the strategy state and cached_paths the process is left with.
Reply(c) ==
    [status |-> 0, body |-> "", narinfo |-> NoNarinfo, recs |-> <<>>,
     gets |-> 0, pings |-> 0, state |-> mem_state[c], persist |-> FALSE,
     cached |-> cached_paths[c]]

\* a map that forgets what it is told
CachePathDrops(cached, path, url) == cached

\* self.cached_paths[file_url] = remote_cache_url
CachePath(cached, path, url) ==
    {e \in cached : e.path # path} \cup {[path |-> path, url |-> url]}

\* GET /nix-cache-info
CacheInfoReplies(c, auth) ==
    IF CacheAuthStatus(c, auth) # 200
    THEN {[Reply(c) EXCEPT !.status = CacheAuthStatus(c, auth)]}
    ELSE {[Reply(c) EXCEPT !.status = 200, !.body = "StoreDir: /nix/store",
                           !.recs = <<TRUE>>]}

\* the remote branch of GET /<store_hash>.narinfo
RemoteNarinfoReplies(c, sh, env) ==
    LET r == get_remote_cache_url(dht, sh, env)
        ch == choose_storage(c, binary_cache[c].strategy, full, mem_state[c], files)
        p == CHOOSE q \in Peers : PeerUrl(q) = r.best
        asked == [Reply(c) EXCEPT !.gets = r.gets, !.pings = r.pings + 1,
                                  !.recs = <<FALSE>>]
    IN  IF r.best = ""
        THEN {[Reply(c) EXCEPT !.status = 404, !.recs = <<FALSE>>,
                               !.gets = r.gets, !.pings = r.pings]}
        ELSE IF env.status = 0
        THEN {[asked EXCEPT !.status = 500]}
        ELSE IF env.status # 200
        THEN {[asked EXCEPT !.status = env.status]}
        ELSE IF ~ch.ok \/ ~ParsedOk(parse_narinfo_text(PeerNarinfo(p, sh)))
        THEN {[asked EXCEPT !.status = 500, !.state = ch.state]}
        ELSE LET d == sign(files[ch.storage][KeyPriv].data, PeerNarinfo(p, sh))
             IN  {[asked EXCEPT !.status = 200,
                                !.narinfo = narinfo_dict_to_bytes(d),
                                !.state = ch.state, !.persist = ch.persist,
                                !.cached = CachePath(cached_paths[c], d.URL, r.best)]}

\* GET /<store_hash>.narinfo
NarinfoReplies(c, sh, auth, env) ==
    LET own == StorePathGet(c, sh, "")
        sib == StorePathFind(sh, "")
        ch == choose_storage(c, binary_cache[c].strategy, full, mem_state[c], files)
    IN  IF CacheAuthStatus(c, auth) # 200
        THEN {[Reply(c) EXCEPT !.status = CacheAuthStatus(c, auth)]}
        ELSE IF own # 0
        THEN LET row == store_path[own]
                 found == StorageFind(files, row.storage_id, row.file_hash)
             IN  IF found = {} THEN {Reply(c)}
                 ELSE {[Reply(c) EXCEPT !.status = 200, !.recs = <<TRUE>>,
                                        !.narinfo = get_narinfo(files, row, f)]
                         : f \in found}
        ELSE IF sib # 0
        THEN LET row == store_path[sib]
                 found == StorageFind(files, row.storage_id, row.file_hash)
             IN  IF found = {} THEN {Reply(c)}
                 ELSE IF ~ch.ok THEN {[Reply(c) EXCEPT !.state = ch.state]}
                 ELSE {IF ParsedOk(parse_narinfo_text(get_narinfo(files, row, f)))
                       THEN [Reply(c) EXCEPT
                               !.status = 200, !.recs = <<FALSE>>,
                               !.narinfo = narinfo_dict_to_bytes(
                                   sign(files[ch.storage][KeyPriv].data,
                                        get_narinfo(files, row, f))),
                               !.state = ch.state, !.persist = ch.persist]
                       ELSE [Reply(c) EXCEPT !.state = ch.state,
                                             !.persist = ch.persist]
                         : f \in found}
        ELSE RemoteNarinfoReplies(c, sh, env)

\* a pop that leaves the entry in place
EvictNothing(cached, path) == cached

\* `if nar_path in self.cached_paths: self.cached_paths.pop(nar_path)`
Evict(cached, path) == {e \in cached : e.path # path}

\* the bytes a peer serves for a nar path it holds
PeerNar(url, f) == url \o "/nar/" \o f.stem

\* GET /nar/<file_hash>.nar.<compression>
NarReplies(c, fh, ext, auth, env) ==
    LET own == StorePathGet(c, "", fh)
        sib == StorePathFind("", fh)
        f == NarFile(fh, ext)
        ownHas == own # 0 /\ f \in Listing(files, store_path[own].storage_id)
        sibHas == sib # 0 /\ f \in Listing(files, store_path[sib].storage_id)
        recs == (IF own # 0 THEN <<FALSE>> ELSE <<>>)
                \o (IF sib # 0 THEN <<FALSE>> ELSE <<>>)
        memo == {e \in cached_paths[c] : e.path = f}
    IN  IF CacheAuthStatus(c, auth) # 200
        THEN {[Reply(c) EXCEPT !.status = CacheAuthStatus(c, auth)]}
        ELSE IF ownHas
        THEN {[Reply(c) EXCEPT !.status = 200, !.recs = <<TRUE>>,
                 !.body = files[store_path[own].storage_id][f].data]}
        ELSE IF sibHas
        THEN {[Reply(c) EXCEPT !.status = 200, !.recs = recs,
                 !.body = files[store_path[sib].storage_id][f].data]}
        ELSE IF memo # {}
        THEN {IF env.status = 200
              THEN [Reply(c) EXCEPT !.status = 200, !.recs = Append(recs, FALSE),
                                    !.body = PeerNar(e.url, f), !.pings = 1,
                                    !.cached = Evict(cached_paths[c], f)]
              ELSE [Reply(c) EXCEPT !.status = 502, !.recs = Append(recs, FALSE),
                                    !.pings = 1]
                : e \in memo}
        ELSE {[Reply(c) EXCEPT !.status = 404, !.recs = recs]}

\* HEAD /<store_hash>.narinfo
HeadReplies(c, sh, auth) ==
    IF CacheAuthStatus(c, auth) = 0 THEN {Reply(c)}
    ELSE IF CacheAuthStatus(c, auth) = 401
    THEN {[Reply(c) EXCEPT !.status = 401, !.recs = <<TRUE>>]}
    ELSE IF StorePathGet(c, sh, "") = 0
    THEN {[Reply(c) EXCEPT !.status = 400, !.recs = <<FALSE>>]}
    ELSE {[Reply(c) EXCEPT !.status = 200, !.recs = <<TRUE>>]}

\* the record_request calls of one request, in order
RECURSIVE RecordAll(_, _)
RecordAll(m, recs) ==
    IF recs = <<>> THEN m
    ELSE RecordAll(record_request(m, Head(recs)), Tail(recs))

\* The cache process answers a request with reply r.
Answer(c, op, r) ==
    /\ CanServe
    /\ resp' = Response(op, r.status)
    /\ metrics' = [metrics EXCEPT ![c] = RecordAll(@, r.recs)]
    /\ mem_state' = [mem_state EXCEPT ![c] = r.state]
    /\ binary_cache' = IF r.persist THEN PersistState(binary_cache, c, r.state)
                       ELSE binary_cache
    /\ cached_paths' = [cached_paths EXCEPT ![c] = r.cached]
    /\ UNCHANGED <<side, files, store_path, full, dht, now, nextId, uploads>>

GetCacheInfo(c, auth) == \E r \in CacheInfoReplies(c, auth) : Answer(c, "info", r)

GetNarinfo(c, sh, auth, env) ==
    \E r \in NarinfoReplies(c, sh, auth, env) : Answer(c, "narinfo", r)

GetNar(c, fh, ext, auth, env) ==
    \E r \in NarReplies(c, fh, ext, auth, env) : Answer(c, "nar", r)

HeadNarinfo(c, sh, auth) == \E r \in HeadReplies(c, sh, auth) : Answer(c, "head", r)

\* ------------------------------------------------------ garbage collector
Range(seq) == {seq[i] : i \in 1..Len(seq)}

Perms(S) ==
    {p \in [1..Cardinality(S) -> S] : \A i, j \in 1..Cardinality(S) :
                                         p[i] = p[j] => i = j}

\* storage.list() of every back-end of the cache, in list order of the
\* back-ends: os.listdir gives the files of a directory in any order.  The
\* key files are put first; they are skipped wherever they come.
RECURSIVE Listings(_, _, _)
Listings(fs, sts, i) ==
    IF i > Len(sts) THEN {<<>>}
    ELSE LET nars == {f \in Listing(fs, sts[i]) : f.stem # "key"}
             keys == SelectSeq(<<KeyPriv, KeyPub>>,
                               LAMBDA k : k \in Listing(fs, sts[i]))
             here == {[k \in 1..(Len(keys) + Cardinality(nars)) |->
                         [storage |-> sts[i],
                          file |-> IF k <= Len(keys) THEN keys[k]
                                   ELSE p[k - Len(keys)]]] : p \in Perms(nars)}
         IN  {h \o rest : h \in here, rest \in Listings(fs, sts, i + 1)}

\* an is_new_file that finds every file old
IsNewFileNever(fs, s, f, t) == FALSE

\* LocalStorage.is_new_file at time t
is_new_file(fs, s, f, t) ==
    (t - fs[s][f].mtime) * TickSeconds <= CONSIDERED_NEW_FILE_AGE

\* created_at + retention > now, with retention = timedelta(days=retention)
InsideRetention(created_at, retention, t) ==
    created_at * TickSeconds + retention * DaySeconds > t * TickSeconds

\* row[8].split(" ") if row[8] else []
RowRefs(row) == IF row.refs # <<>> THEN SplitSp(row.refs) ELSE <<>>

\* database.delete_store_path
delete_store_path(sp, store_hash, storage_id) ==
    SelectSeq(sp, LAMBDA r : ~(r.store_hash = store_hash /\ r.storage_id = storage_id))

\* collect_garbage, the loop over the listed files: the files left, the
\* healthy package names and the expired rows after the entries from i on
RECURSIVE GcScan(_, _, _, _, _)
GcScan(entries, i, retention, t, acc) ==
    IF i > Len(entries) THEN acc
    ELSE LET s == entries[i].storage
             file == entries[i].file
             r == get_store_path_row(store_path, {s}, "", file.stem)
             row == store_path[r]
         IN  IF file.stem = "key" THEN GcScan(entries, i + 1, retention, t, acc)
             ELSE IF r = 0
             THEN IF is_new_file(files, s, file, t)
                  THEN GcScan(entries, i + 1, retention, t, acc)
                  ELSE GcScan(entries, i + 1, retention, t,
                           [acc EXCEPT !.files = RemoveFile(@, s, file)])
             ELSE IF InsideRetention(files[s][file].mtime, retention, t)
             THEN GcScan(entries, i + 1, retention, t,
                      [acc EXCEPT !.healthy =
                          @ \cup {PackageName(row.store_hash, row.store_suffix)}
                            \cup Range(RowRefs(row))])
             ELSE GcScan(entries, i + 1, retention, t,
                      [acc EXCEPT !.expired = Append(@, row)])

\* a loop over the queue that re-enqueues a row twice before it removes it
RECURSIVE GcSweepRequeues(_, _, _, _, _)
GcSweepRequeues(queue, visited, healthy, fs, sp) ==
    IF queue = <<>>
    THEN [files |-> fs, store_path |-> sp, raised |-> FALSE, dequeues |-> 0]
    ELSE LET row == Head(queue)
             package_name == PackageName(row.store_hash, row.store_suffix)
             filename == NarFile(row.file_hash, "xz")
             again == package_name \o "+"
             r == IF package_name \in healthy
                  THEN GcSweepRequeues(Tail(queue), visited,
                                       healthy \cup Range(RowRefs(row)), fs, sp)
                  ELSE IF again \in visited
                  THEN IF filename \notin Listing(fs, row.storage_id)
                       THEN [files |-> fs, store_path |-> sp, raised |-> TRUE,
                             dequeues |-> 0]
                       ELSE GcSweepRequeues(Tail(queue), visited, healthy,
                                RemoveFile(fs, row.storage_id, filename),
                                delete_store_path(sp, row.store_hash, row.storage_id))
                  ELSE GcSweepRequeues(Append(Tail(queue), row),
                           visited \cup {IF package_name \in visited THEN again
                                         ELSE package_name},
                           healthy, fs, sp)
         IN  [r EXCEPT !.dequeues = @ + 1]

\* collect_garbage, the loop over the queue.  raised: current_storage.remove
\* found no file of the name and the pass ended there.  dequeues: the number
\* of queue.popleft() calls of the pass.
RECURSIVE GcSweep(_, _, _, _, _)
GcSweep(queue, visited, healthy, fs, sp) ==
    IF queue = <<>>
    THEN [files |-> fs, store_path |-> sp, raised |-> FALSE, dequeues |-> 0]
    ELSE LET row == Head(queue)
             package_name == PackageName(row.store_hash, row.store_suffix)
             filename == NarFile(row.file_hash, "xz")
             r == IF package_name \in healthy
                  THEN GcSweep(Tail(queue), visited, healthy \cup Range(RowRefs(row)),
                               fs, sp)
                  ELSE IF package_name \in visited
                  THEN IF filename \notin Listing(fs, row.storage_id)
                       THEN [files |-> fs, store_path |-> sp, raised |-> TRUE,
                             dequeues |-> 0]
                       ELSE GcSweep(Tail(queue), visited, healthy,
                                    RemoveFile(fs, row.storage_id, filename),
                                    delete_store_path(sp, row.store_hash, row.storage_id))
                  ELSE GcSweep(Append(Tail(queue), row), visited \cup {package_name},
                               healthy, fs, sp)
         IN  [r EXCEPT !.dequeues = @ + 1]

\* BinaryCache.collect_garbage
collect_garbage(c, entries) ==
    LET scan == GcScan(entries, 1, binary_cache[c].retention, now,
                       [files |-> files, healthy |-> {}, expired |-> <<>>])
    IN  GcSweep(scan.expired, {}, scan.healthy, scan.files, store_path)

\* One pass of the garbage collector thread of a cache.
CollectGarbage(c, entries) ==
    /\ entries \in Listings(files, StoragesOf(c), 1)
    /\ LET gc == collect_garbage(c, entries)
       IN  /\ files' = gc.files
           /\ store_path' = gc.store_path
           /\ resp' = Response("gc", IF gc.raised THEN 0 ELSE 200)
    /\ UNCHANGED <<side, binary_cache, full, mem_state, cached_paths, metrics, dht,
                   now, nextId, uploads>>

\* ---------------------------------------------------------- specifications
\* The upload life cycle.
Next ==
    \/ \E c \in Caches, auth \in PostAuths : PostRejected(c, auth)
    \/ \E c \in Caches, codec \in Codecs : Initiate(c, codec)
    \/ \E c \in Caches, n \in UploadIds : UploadUrl(c, n)
    \/ \E c \in Caches, n \in UploadIds, body \in Bodies, auth \in CacheAuths :
          PutBody(c, n, body, auth)
    \/ \E c \in Caches, n \in UploadIds, sh \in StoreHashes, suffix \in Suffixes,
          fh \in FileHashes : Complete(c, n, sh, suffix, fh, <<>>)
    \/ \E c \in Caches, n \in UploadIds : Abort(c, n)

Spec == Init /\ [][Next]_vars

\* the environments a narinfo or nar request can meet: the peers matter only
\* when the request reaches them
QuietEnv ==
    [alive |-> {}, first |-> "p1", status |-> 0,
     latency |-> [p \in Peers |-> PingLatency]]

NarinfoEnvs(c, sh) ==
    IF StorePathGet(c, sh, "") = 0 /\ StorePathFind(sh, "") = 0
    THEN PeerEnvs ELSE {QuietEnv}

NarEnvs(c, fh, ext) ==
    IF \E e \in cached_paths[c] : e.path = NarFile(fh, ext)
    THEN PeerEnvs ELSE {QuietEnv}

\* credentials do_GET accepts: the token after an empty user name
GoodAuth(c) == Credentials(<<>>, TokenOf(c))

\* the Authorization headers tried on a cache: none, the accepted one, and
\* the cache's token after a user name
ServeAuths(c) == {NoAuth, GoodAuth(c), Credentials(<<"u">>, TokenOf(c))}

\* Uploads, and downloads of what was uploaded.
ServeNext ==
    \/ \E c \in Caches, codec \in Codecs : Initiate(c, codec)
    \/ \E c \in Caches, n \in UploadIds, body \in Bodies :
          PutBody(c, n, body, GoodAuth(c))
    \/ \E c \in Caches, n \in UploadIds, sh \in StoreHashes, suffix \in Suffixes,
          fh \in FileHashes : Complete(c, n, sh, suffix, fh, <<>>)
    \/ \E c \in Caches : \E auth \in ServeAuths(c) : GetCacheInfo(c, auth)
    \/ \E c \in Caches, fh \in FileHashes, ext \in Codecs :
          \E auth \in ServeAuths(c), env \in NarEnvs(c, fh, ext) :
              GetNar(c, fh, ext, auth, env)
    \/ \E c \in Caches, sh \in StoreHashes : \E auth \in ServeAuths(c) :
          HeadNarinfo(c, sh, auth)

SpecServe == Init /\ [][ServeNext]_vars

\* Uploads of one file hash, the clock, the garbage collector, and narinfo
\* requests while no peer answers.
GcNext ==
    \/ \E c \in Caches, codec \in Codecs : Initiate(c, codec)
    \/ \E c \in Caches, n \in UploadIds, sh \in StoreHashes, suffix \in Suffixes :
          Complete(c, n, sh, suffix, "fa", <<>>)
    \/ Tick
    \/ \E c \in Caches : \E entries \in Listings(files, StoragesOf(c), 1) :
          CollectGarbage(c, entries)
    \/ \E c \in Caches, sh \in StoreHashes :
          GetNarinfo(c, sh, GoodAuth(c), QuietEnv)

SpecGc == Init /\ [][GcNext]_vars

\* Uploads with and without references, and narinfo requests.
NarinfoNext ==
    \/ \E c \in Caches : Initiate(c, "xz")
    \/ \E c \in Caches, n \in UploadIds, sh \in StoreHashes, suffix \in Suffixes,
          refs \in RefLists : Complete(c, n, sh, suffix, "fa", refs)
    \/ \E c \in Caches, sh \in StoreHashes :
          \E env \in NarinfoEnvs(c, sh) : GetNarinfo(c, sh, GoodAuth(c), env)

SpecNarinfo == Init /\ [][NarinfoNext]_vars

\* A cache that holds four artifacts of any ages, each referring to at most
\* one of the others, and its garbage collector.
GcPackages == {"ha", "hb", "hc", "hd"}

GcRows(ref) ==
    LET row(h) == StorePathRow(h, "pkg", "f" \o h,
                               IF ref[h] = h THEN <<>>
                               ELSE <<PackageName(ref[h], "pkg")>>, "s3")
    IN  <<row("ha"), row("hb"), row("hc"), row("hd")>>

GcFiles(age) ==
    [InitFiles EXCEPT !["s3"] =
        [f \in {KeyPriv, KeyPub} \cup {NarFile("f" \o h, "xz") : h \in GcPackages} |->
            IF f.stem = "key" THEN InitFiles["s3"][f]
            ELSE [data |-> "b1", mtime |-> age[CHOOSE h \in GcPackages : f.stem = "f" \o h]]]]

\* ref[h] = h stands for no reference
ClosureInit ==
    /\ \E age \in [GcPackages -> {0, MaxTime}], ref \in [GcPackages -> GcPackages] :
          /\ store_path = GcRows(ref)
          /\ files = GcFiles(age)
    /\ now = MaxTime
    /\ binary_cache = CacheRows
    /\ full = {}
    /\ mem_state = [c \in Caches |-> CacheRows[c].strategy_state]
    /\ cached_paths = [c \in Caches |-> {}]
    /\ metrics = [c \in Caches |-> [request_count |-> 0, hit_count |-> 0,
                                    miss_count |-> 0]]
    /\ dht = InitDht
    /\ nextId = 0
    /\ resp = Response("init", 0)
    /\ uploads = [i \in UploadIds |-> NoUpload]
    /\ workers = IdleWorkers
    /\ storage_table = Storages
    /\ loops = LoopsRunning
    /\ available = AmpleSpace

ClosureNext ==
    \E entries \in Listings(files, StoragesOf("c2"), 1) : CollectGarbage("c2", entries)

SpecClosure == ClosureInit /\ [][ClosureNext]_vars

\* Requests that reach the peers, over an overlay that lists any of the
\* peers for the store hashes and holds for each peer no descriptor, one
\* without metrics, or one with a load score.
PeerDescriptors == -2 .. MaxLoad

\* desc[p]: -2 for no descriptor, -1 for one without metrics, else the load score
RemoteDht(owners, desc) ==
    {<<HashKey(h), IdValue(p)>> : h \in StoreHashes, p \in owners}
    \cup {<<CacheKey(p), Descriptor(p, PeerUrl(p), desc[p] >= 0,
                                    IF desc[p] < 0 THEN 0 ELSE desc[p])>>
            : p \in {q \in Peers : desc[q] > -2}}

RemoteInit ==
    /\ \E owners \in SUBSET Peers, desc \in [Peers -> PeerDescriptors] :
          dht = RemoteDht(owners, desc)
    /\ binary_cache = CacheRows
    /\ files = InitFiles
    /\ store_path = <<>>
    /\ full = {}
    /\ mem_state = [c \in Caches |-> CacheRows[c].strategy_state]
    /\ cached_paths = [c \in Caches |-> {}]
    /\ metrics = [c \in Caches |-> [request_count |-> 0, hit_count |-> 0,
                                    miss_count |-> 0]]
    /\ now = 0
    /\ nextId = 0
    /\ resp = Response("init", 0)
    /\ uploads = [i \in UploadIds |-> NoUpload]
    /\ workers = IdleWorkers
    /\ storage_table = Storages
    /\ loops = LoopsRunning
    /\ available = AmpleSpace

RemoteNext ==
    \/ /\ CanServe
       /\ \E c \in Caches, sh \in StoreHashes, env \in RemoteEnvs :
             GetNarinfo(c, sh, GoodAuth(c), env)
    \/ /\ CanServe
       /\ \E c \in Caches, env \in RemoteEnvs :
             GetNar(c, "fr", "xz", GoodAuth(c), env)

SpecRemote == RemoteInit /\ [][RemoteNext]_vars

\* Placement: cache c1 with each strategy and each state its row can hold,
\* and each set of full back-ends.
SplitLists == {<<70, 30>>, <<30, 70>>}

PlaceStates ==
    {[strategy |-> "round-robin", state |-> [NoState EXCEPT !.index = i]] : i \in 0 .. 2}
    \cup {[strategy |-> "in-order", state |-> NoState]}
    \cup {[strategy |-> "split",
           state |-> [index |-> 0, split |-> sp, non_int |-> b]] :
              sp \in SplitLists, b \in BOOLEAN}

PlaceInit ==
    /\ \E ps \in PlaceStates :
          /\ binary_cache = [CacheRows EXCEPT !["c1"].strategy = ps.strategy,
                                              !["c1"].strategy_state = ps.state]
          /\ mem_state = [c \in Caches |-> IF c = "c1" THEN ps.state
                                           ELSE CacheRows[c].strategy_state]
    /\ full \in SUBSET Storages
    /\ files = InitFiles
    /\ store_path = <<>>
    /\ cached_paths = [c \in Caches |-> {}]
    /\ metrics = [c \in Caches |-> [request_count |-> 0, hit_count |-> 0,
                                    miss_count |-> 0]]
    /\ dht = InitDht
    /\ now = 0
    /\ nextId = 0
    /\ resp = Response("init", 0)
    /\ uploads = [i \in UploadIds |-> NoUpload]
    /\ workers = IdleWorkers
    /\ storage_table = Storages
    /\ loops = LoopsRunning
    /\ available = AmpleSpace

PlaceNext ==
    \/ \E c \in Caches, codec \in Codecs : Initiate(c, codec)
    \/ \E c \in Caches, n \in UploadIds, body \in Bodies :
          PutBody(c, n, body, GoodAuth(c))

SpecPlace == PlaceInit /\ [][PlaceNext]_vars

\* ---------------------------------------------------------- administration
\* The "split" values a storage section can carry; 0: the key is absent.
SplitValues == {0, 30, 70}

\* The section of cache c1 in the configuration file: whether it has a
\* "storage-strategy" key, the strategy in force (its own, or the server's
\* default-storage-strategy), the "split" of its two storages and whether
\* they are written as floats.
CacheConfigs ==
    [key : BOOLEAN, strategy : {"round-robin", "split"},
     split : [1 .. 2 -> SplitValues], float : BOOLEAN]

\* the section of cache c2: one storage, in-order
FixedConfig ==
    [key |-> TRUE, strategy |-> "in-order", split |-> <<>>, float |-> FALSE]

\* A configuration file: the caches it lists and the section of c1. A section
\* that is not read (c1 is not listed) or whose split values are not read (the
\* strategy is not split) is written in one way only.
Configs ==
    {cfg \in [caches : SUBSET Caches, c1 : CacheConfigs] :
        /\ cfg.c1.strategy # "split" => cfg.c1.split = <<0, 0>> /\ ~cfg.c1.float
        /\ "c1" \notin cfg.caches => cfg.c1.key /\ cfg.c1.strategy # "split"}

ConfigOf(cfg, c) == IF c = "c1" THEN cfg.c1 ELSE FixedConfig

RECURSIVE SumSeq(_)
SumSeq(q) == IF q = <<>> THEN 0 ELSE Head(q) + SumSeq(Tail(q))

\* ConfigValidator._validate_caches: the split values are checked only when
\* the cache section itself names the split strategy
ValidCache(cc) ==
    (cc.key /\ cc.strategy = "split") =>
        /\ \A i \in DOMAIN cc.split : cc.split[i] # 0
        /\ SumSeq(cc.split) = 100

validate_configuration(cfg) == \A c \in cfg.caches : ValidCache(ConfigOf(cfg, c))

\* CacheCommands.create: the row it saves; str() of every storage's split
CreateRow(c, cc) ==
    [access |-> CacheRows[c].access, retention |-> CacheRows[c].retention,
     strategy |-> cc.strategy,
     strategy_state |-> IF cc.strategy = "split"
                        THEN [index |-> 0, split |-> cc.split, non_int |-> TRUE]
                        ELSE NoState]

\* CacheCommands.update: the strategy is replaced, the state is kept
UpdateRow(row, cc) == [row EXCEPT !.strategy = cc.strategy]

\* ConfigManager._handle_storages: the split list of the file replaces the
\* stored one when the two lists differ; strings never equal numbers
HandleStorages(row, cc, created) ==
    LET splits == SelectSeq(cc.split, LAMBDA v : v # 0)
    IN  IF row.strategy = "split" /\ (created \/ splits # row.strategy_state.split)
        THEN [row EXCEPT !.strategy_state.split = splits,
                         !.strategy_state.non_int = cc.float /\ splits # <<>>]
        ELSE row

\* ConfigManager._handle_caches for one cache
LoadedRow(bc, c, cc) ==
    IF c \in DOMAIN bc
    THEN HandleStorages(IF bc[c].strategy # cc.strategy THEN UpdateRow(bc[c], cc)
                        ELSE bc[c],
                        cc, FALSE)
    ELSE HandleStorages(CreateRow(c, cc), cc, TRUE)

\* the back-ends of a set of caches
StoragesOfAll(cs) == {s \in Storages : CacheOfStorage(s) \in cs}

\* BinaryCache.delete: it calls self.storage.delete() first, and StorageManager
\* has no method of that name, so the call raises AttributeError before
\* database.delete_binary_cache is reached: the rows are the ones it was given
BinaryCacheDelete(bc, c) == bc

\* The configuration file is loaded: validation, then for each listed cache
\* create or update and its storages, then BinaryCache.delete for the first
\* cache the file does not list; the exception it raises is caught and the
\* load reports failure.
ConfigLoad(cfg) ==
    IF ~validate_configuration(cfg)
    THEN /\ resp' = Response("load", 0)
         /\ UNCHANGED <<side, binary_cache, files, store_path, full,
                        mem_state, cached_paths, metrics, dht, now, nextId, uploads>>
    ELSE LET created == cfg.caches \ DOMAIN binary_cache
             orphans == (DOMAIN binary_cache) \ cfg.caches
             handled == [c \in (DOMAIN binary_cache) \cup cfg.caches |->
                            IF c \in cfg.caches
                            THEN LoadedRow(binary_cache, c, ConfigOf(cfg, c))
                            ELSE binary_cache[c]]
         IN  /\ binary_cache' = IF orphans = {} THEN handled
                                ELSE BinaryCacheDelete(handled, CHOOSE c \in orphans : TRUE)
             /\ storage_table' = storage_table \cup StoragesOfAll(cfg.caches)
             /\ files' = [s \in Storages |->
                             IF CacheOfStorage(s) \in created THEN InitFiles[s]
                             ELSE files[s]]
             /\ mem_state' = [c \in Caches |->
                                 IF c \in cfg.caches THEN binary_cache'[c].strategy_state
                                 ELSE mem_state[c]]
             /\ resp' = Response("load", IF orphans = {} THEN 200 ELSE 0)
             /\ UNCHANGED <<loops, workers, available, store_path, full, cached_paths, metrics,
                            dht, now, nextId, uploads>>

\* `cache delete`: CacheCommands.delete ends with BinaryCache.delete, which raises
CacheDelete(c) ==
    /\ c \in DOMAIN binary_cache
    /\ binary_cache' = BinaryCacheDelete(binary_cache, c)
    /\ resp' = Response("delete", 0)
    /\ UNCHANGED <<side, files, store_path, full, mem_state, cached_paths, metrics,
                   dht, now, nextId, uploads>>

\* The database has just been created: no cache, no back-end, no file.
AdminInit ==
    /\ binary_cache = [c \in {} |-> NoState]
    /\ storage_table = {}
    /\ loops = LoopsRunning
    /\ available = AmpleSpace
    /\ files = [s \in Storages |-> << >>]
    /\ store_path = <<>>
    /\ full = {}
    /\ mem_state = [c \in Caches |-> NoState]
    /\ cached_paths = [c \in Caches |-> {}]
    /\ metrics = [c \in Caches |-> [request_count |-> 0, hit_count |-> 0,
                                    miss_count |-> 0]]
    /\ dht = InitDht
    /\ now = 0
    /\ nextId = 0
    /\ resp = Response("init", 0)
    /\ uploads = [i \in UploadIds |-> NoUpload]
    /\ workers = IdleWorkers

AdminNext ==
    \/ \E cfg \in Configs : ConfigLoad(cfg)
    \/ \E c \in Caches : CacheDelete(c)
    \/ \E c \in DOMAIN binary_cache : Initiate(c, "xz")
    \/ \E c \in DOMAIN binary_cache, n \in UploadIds :
          Complete(c, n, "ha", "pkg", "fa", <<>>)

SpecAdmin == AdminInit /\ [][AdminNext]_vars

\* ------------------------------------------------------------- free space
\* LocalStorage.is_full: used / available * 0.01 > MAX_STORAGE_USAGE.  In
\* double arithmetic this is true exactly from used = 95 * available on
\* (95 * 0.01 rounds to a value above 0.95).
is_full(fs, av, s) ==
    get_used_space(fs, s) >= MAX_STORAGE_USAGE_100 * av[s]

\* The file system of a back-end gains or loses room.
Statvfs(s, a) ==
    /\ available' = [available EXCEPT ![s] = a]
    /\ resp' = Response("statvfs", 0)
    /\ UNCHANGED <<loops, workers, storage_table, binary_cache, files, store_path, full,
                   mem_state, cached_paths, metrics, dht, now, nextId, uploads>>

FullInit ==
    /\ available \in [Storages -> 1 .. MaxAvailable]
    /\ binary_cache = CacheRows
    /\ files = InitFiles
    /\ store_path = <<>>
    /\ full = {}
    /\ mem_state = [c \in Caches |-> CacheRows[c].strategy_state]
    /\ cached_paths = [c \in Caches |-> {}]
    /\ metrics = [c \in Caches |-> [request_count |-> 0, hit_count |-> 0,
                                    miss_count |-> 0]]
    /\ dht = InitDht
    /\ now = 0
    /\ nextId = 0
    /\ resp = Response("init", 0)
    /\ uploads = [i \in UploadIds |-> NoUpload]
    /\ workers = IdleWorkers
    /\ storage_table = Storages
    /\ loops = LoopsRunning

FullNext ==
    \/ \E s \in Storages, a \in 1 .. MaxAvailable : Statvfs(s, a)
    \/ \E c \in Caches, codec \in Codecs : Initiate(c, codec)
    \/ \E c \in Caches, n \in UploadIds, body \in Bodies :
          PutBody(c, n, body, GoodAuth(c))

SpecFull == FullInit /\ [][FullNext]_vars

\* ------------------------------------------------------------ publication
\* StorageManager.get_store_paths: the rows held on the back-ends of cache c
get_store_paths(sp, c) == SelectSeq(sp, LAMBDA row : row.storage_id \in StoragesSet(c))

\* the loop of BinaryCache.sync: dht.put(store_hash, self.id) for each row
RECURSIVE PutStoreHashes(_, _, _)
PutStoreHashes(d, rows, c) ==
    IF rows = <<>> THEN d
    ELSE PutStoreHashes(DhtPut(d, HashKey(Head(rows).store_hash), IdValue(c)),
                        Tail(rows), c)

\* BinaryCache.advertise
advertise(d, c, load) ==
    DhtPut(d, CacheKey(c), Descriptor(c, "http://" \o c, TRUE, load))

\* a sync that does not look at the access of the cache
SyncAnyAccess(d, bc, sp, c, load) ==
    PutStoreHashes(advertise(d, c, load), get_store_paths(sp, c), c)

\* BinaryCache.sync
sync(d, bc, sp, c, load) ==
    IF bc[c].access = "private" THEN d
    ELSE PutStoreHashes(advertise(d, c, load), get_store_paths(sp, c), c)

\* `cache start`: the cache process synchronizes with the overlay; load is
\* the load score of the moment
Sync(c, load) ==
    /\ dht' = sync(dht, binary_cache, store_path, c, load)
    /\ resp' = Response("sync", 200)
    /\ UNCHANGED <<side, binary_cache, files, store_path, full, mem_state,
                   cached_paths, metrics, now, nextId, uploads>>

\* The values this server has put are not permanent: the overlay drops them
\* after its timeout.
Expire ==
    /\ dht' = {e \in dht : e[2].id \notin Caches}
    /\ resp' = Response("expire", 0)
    /\ UNCHANGED <<side, binary_cache, files, store_path, full, mem_state,
                   cached_paths, metrics, now, nextId, uploads>>

PublishNext ==
    \/ \E c \in Caches : Initiate(c, "xz")
    \/ \E c \in Caches, n \in UploadIds, sh \in StoreHashes :
          Complete(c, n, sh, "pkg", "fa", <<>>)
    \/ \E c \in Caches, load \in 0 .. MaxLoad : Sync(c, load)
    \/ Expire

SpecPublish == Init /\ [][PublishNext]_vars

\* ----------------------------------------------------- concurrent Initiates
\* Initiate as the request threads of the API server (ThreadingHTTPServer)
\* run it. First step, BinaryCache.get: the thread builds its own
\* StorageManager from the binary_cache row, strategy state included.
BinaryCacheGet(w, c) ==
    /\ workers[w].pc = "idle"
    /\ nextId + Cardinality({v \in Workers : workers[v].pc = "got"}) < MaxUploads
    /\ workers' = [workers EXCEPT ![w] = [pc |-> "got", cache |-> c, is_hit |-> FALSE,
                                          reg |-> binary_cache[c].strategy_state]]
    /\ UNCHANGED <<loops, storage_table, available, binary_cache, files, store_path, full,
                   mem_state, cached_paths, metrics, dht, now, nextId, resp, uploads>>

\* Second step, cache.storage.new_file and the rest of the handler: the
\* back-end is chosen with the state the thread read, the state is written to
\* the row, the file is created, its name is put and the reply is sent.
NewFile(w) ==
    /\ workers[w].pc = "got"
    /\ LET c == workers[w].cache
           id == IdStr(nextId + 1)
           ch == choose_storage(c, binary_cache[c].strategy, full, workers[w].reg, files)
           filename == NarFile(id, "xz")
       IN  IF ~ch.ok
           THEN /\ resp' = Response("initiate", 0)
                /\ UNCHANGED <<binary_cache, files, dht, uploads>>
           ELSE /\ binary_cache' = IF ch.persist
                                   THEN PersistState(binary_cache, c, ch.state)
                                   ELSE binary_cache
                /\ files' = WriteFile(files, ch.storage, filename, "", now)
                /\ dht' = DhtPut(dht, FileKey(filename), IdValue(c))
                /\ uploads' = [uploads EXCEPT ![nextId + 1].st = "reserved"]
                /\ resp' = Response("initiate", 200)
    /\ nextId' = nextId + 1
    /\ workers' = [workers EXCEPT ![w] = IdleWorkers[w]]
    /\ UNCHANGED <<loops, storage_table, available, store_path, full, mem_state,
                   cached_paths, metrics, now>>

RaceNext ==
    \/ \E w \in Workers, c \in Caches : BinaryCacheGet(w, c)
    \/ \E w \in Workers : NewFile(w)

SpecRace == PlaceInit /\ [][RaceNext]_vars

\* ------------------------------------------------- concurrent GET /nar
\* GET /nar/fr.nar.xz as the request threads of a cache process
\* (ThreadingHTTPServer) run it when no record of the node names the file.
\* The path a remote narinfo lookup memoizes:
MemoPath == NarFile("fr", "xz")

Memoized(c) == \E e \in cached_paths[c] : e.path = MemoPath

InFlight == Cardinality({v \in Workers : workers[v].pc # "idle"})

Finish(w) == workers' = [workers EXCEPT ![w] = IdleWorkers[w]]

\* `if nar_path in self.server.remote.cached_paths`; 404 when it is not
NarMember(w, c) ==
    /\ workers[w].pc = "idle"
    /\ StorePathFind("", "fr") = 0
    /\ metrics["c1"].request_count + metrics["c2"].request_count + InFlight < MaxRequests
    /\ IF Memoized(c)
       THEN /\ workers' = [workers EXCEPT ![w].pc = "member", ![w].cache = c]
            /\ UNCHANGED resp
       ELSE /\ resp' = Response("nar", 404)
            /\ UNCHANGED workers
    /\ UNCHANGED <<loops, storage_table, available, binary_cache, files, store_path, full,
                   mem_state, cached_paths, metrics, dht, now, nextId, uploads>>

\* `remote_cache_url = self.server.remote.cached_paths[nar_path]`: KeyError
\* when the entry is gone, and the handler ends without a response
NarLookup(w) ==
    /\ workers[w].pc = "member"
    /\ IF Memoized(workers[w].cache)
       THEN /\ workers' = [workers EXCEPT ![w].pc = "fetching"]
            /\ UNCHANGED resp
       ELSE /\ resp' = Response("nar", 0)
            /\ Finish(w)
    /\ UNCHANGED <<loops, storage_table, available, binary_cache, files, store_path, full,
                   mem_state, cached_paths, metrics, dht, now, nextId, uploads>>

\* fetch_remote_nar_file up to `if nar_path in self.cached_paths`: 502 when
\* the peer cannot be reached, 200 at once when the entry is not there
NarFetch(w, ok) ==
    /\ workers[w].pc = "fetching"
    /\ LET c == workers[w].cache
       IN  IF ok /\ Memoized(c)
           THEN /\ workers' = [workers EXCEPT ![w].pc = "popping"]
                /\ UNCHANGED <<resp, metrics>>
           ELSE /\ resp' = Response("nar", IF ok THEN 200 ELSE 502)
                /\ Record(c, FALSE)
                /\ Finish(w)
    /\ UNCHANGED <<loops, storage_table, available, binary_cache, files, store_path, full,
                   mem_state, cached_paths, dht, now, nextId, uploads>>

\* `self.cached_paths.pop(nar_path)`: KeyError when the entry is gone, caught
\* by `except Exception`, which returns (None, 500)
NarPop(w) ==
    /\ workers[w].pc = "popping"
    /\ LET c == workers[w].cache
       IN  /\ resp' = Response("nar", IF Memoized(c) THEN 200 ELSE 500)
           /\ cached_paths' = [cached_paths EXCEPT ![c] = Evict(@, MemoPath)]
           /\ Record(c, FALSE)
    /\ Finish(w)
    /\ UNCHANGED <<loops, storage_table, available, binary_cache, files, store_path, full,
                   mem_state, dht, now, nextId, uploads>>

\* every cache may have memoized the path before
EvictInit ==
    /\ binary_cache = CacheRows
    /\ files = InitFiles
    /\ store_path = <<>>
    /\ full = {}
    /\ mem_state = [c \in Caches |-> CacheRows[c].strategy_state]
    /\ \E memo \in SUBSET Caches, p \in Peers :
          cached_paths = [c \in Caches |->
                            IF c \in memo THEN CachePath({}, MemoPath, PeerUrl(p))
                            ELSE {}]
    /\ metrics = [c \in Caches |-> [request_count |-> 0, hit_count |-> 0,
                                    miss_count |-> 0]]
    /\ dht = InitDht
    /\ now = 0
    /\ nextId = 0
    /\ resp = Response("init", 0)
    /\ uploads = [i \in UploadIds |-> NoUpload]
    /\ workers = IdleWorkers
    /\ storage_table = Storages
    /\ loops = LoopsRunning
    /\ available = AmpleSpace

EvictNext ==
    \/ \E w \in Workers, c \in Caches : NarMember(w, c)
    \/ \E w \in Workers : NarLookup(w)
    \/ \E w \in Workers, ok \in BOOLEAN : NarFetch(w, ok)
    \/ \E w \in Workers : NarPop(w)
    \/ /\ InFlight < MaxWorkers
       /\ \E c \in Caches, env \in PeerEnvs : GetNarinfo(c, "ha", GoodAuth(c), env)

SpecEvict == EvictInit /\ [][EvictNext]_vars

\* ------------------------------------------- PUT beside Complete and Abort
\* do_PUT runs in the cache process, Complete and Abort in the API server.
\* First step of do_PUT: self.server.cache.storage.find(name); 400 when no
\* file carries the id.
PutFind(w, c, n) ==
    /\ workers[w].pc = "idle"
    /\ metrics["c1"].request_count + metrics["c2"].request_count + InFlight < MaxRequests
    /\ LET found == ManagerFind(files, c, IdStr(n))
       IN  IF found = {}
           THEN /\ resp' = Response("put", 400)
                /\ Record(c, FALSE)
                /\ UNCHANGED workers
           ELSE \E fd \in found :
                /\ workers' = [workers EXCEPT ![w] = [pc |-> "found", cache |-> c,
                                                      is_hit |-> TRUE, reg |-> fd]]
                /\ UNCHANGED <<resp, metrics>>
    /\ UNCHANGED <<loops, storage_table, available, binary_cache, files, store_path, full,
                   mem_state, cached_paths, dht, now, nextId, uploads>>

\* The rest of do_PUT: the body is read, the name is put, storage.save opens
\* the name it found with "wb" and writes the body, 201.
PutSave(w, body) ==
    /\ workers[w].pc = "found"
    /\ LET fd == workers[w].reg
           c == workers[w].cache
       IN  /\ dht' = DhtPut(dht, FileKey(fd.file), IdValue(c))
           /\ files' = WriteFile(files, fd.storage, fd.file, body, now)
           /\ Record(c, TRUE)
    /\ resp' = Response("put", 201)
    /\ Finish(w)
    /\ UNCHANGED <<loops, storage_table, available, binary_cache, store_path, full,
                   mem_state, cached_paths, now, nextId, uploads>>

OverlapNext ==
    \/ \E c \in Caches : Initiate(c, "xz")
    \/ \E w \in Workers, c \in Caches, n \in UploadIds : PutFind(w, c, n)
    \/ \E w \in Workers, body \in Bodies : PutSave(w, body)
    \/ \E c \in Caches, n \in UploadIds : Complete(c, n, "ha", "pkg", "fa", <<>>)
    \/ \E c \in Caches, n \in UploadIds : Abort(c, n)

SpecOverlap == Init /\ [][OverlapNext]_vars

\* ------------------------------------------------------------ all handlers
\* Every handler of the API server and of the cache processes, the clock and
\* the garbage collector.
FrameNext ==
    \/ \E c \in Caches, auth \in PostAuths : PostRejected(c, auth)
    \/ \E c \in Caches : Initiate(c, "xz")
    \/ \E c \in Caches, n \in UploadIds : UploadUrl(c, n)
    \/ \E c \in Caches, n \in UploadIds : PutBody(c, n, "b1", GoodAuth(c))
    \/ \E c \in Caches, n \in UploadIds : Complete(c, n, "ha", "pkg", "fa", <<>>)
    \/ \E c \in Caches, n \in UploadIds : Abort(c, n)
    \/ \E c \in Caches : GetCacheInfo(c, GoodAuth(c))
    \/ \E c \in Caches : GetNarinfo(c, "ha", GoodAuth(c), QuietEnv)
    \/ \E c \in Caches : GetNar(c, "fa", "xz", GoodAuth(c), QuietEnv)
    \/ \E c \in Caches : HeadNarinfo(c, "ha", GoodAuth(c))
    \/ Tick
    \/ \E c \in Caches : \E entries \in Listings(files, StoragesOf(c), 1) :
          CollectGarbage(c, entries)

SpecFrame == Init /\ [][FrameNext]_vars

\* -------------------------------------------------------- background loops
\* One period of BinaryCache.garbage_collector: `while True: sleep;
\* self.collect_garbage()`. Nothing in the loop catches an exception, so a
\* pass that raises ends the thread.
GarbageCollector(c, entries) ==
    /\ loops[c].gc
    /\ entries \in Listings(files, StoragesOf(c), 1)
    /\ LET gc == collect_garbage(c, entries)
       IN  /\ files' = gc.files
           /\ store_path' = gc.store_path
           /\ resp' = Response("gc", IF gc.raised THEN 0 ELSE 200)
           /\ loops' = [loops EXCEPT ![c].gc = ~gc.raised]
    /\ UNCHANGED <<workers, storage_table, available, binary_cache, full, mem_state,
                   cached_paths, metrics, dht, now, nextId, uploads>>

\* One period of BinaryCache.advertise_periodically: `while True: sleep;
\* self.advertise()`; ok is false when building the payload raises (the space
\* query of a back-end fails).
AdvertisePeriodically(c, load, ok) ==
    /\ loops[c].adv
    /\ dht' = IF ok THEN advertise(dht, c, load) ELSE dht
    /\ resp' = Response("advertise", IF ok THEN 200 ELSE 0)
    /\ loops' = [loops EXCEPT ![c].adv = ok]
    /\ UNCHANGED <<workers, storage_table, available, binary_cache, files, store_path,
                   full, mem_state, cached_paths, metrics, now, nextId, uploads>>

LoopsNext ==
    \/ \E c \in Caches, codec \in Codecs : Initiate(c, codec)
    \/ \E c \in Caches, n \in UploadIds : Complete(c, n, "ha", "pkg", "fa", <<>>)
    \/ Tick
    \/ \E c \in Caches : \E entries \in Listings(files, StoragesOf(c), 1) :
          GarbageCollector(c, entries)
    \/ \E c \in Caches, load \in {0}, ok \in BOOLEAN : AdvertisePeriodically(c, load, ok)

SpecLoops == Init /\ [][LoopsNext]_vars

\* Request workers of the cache processes inside record_request.  The
\* method takes no lock: "self.request_count += 1" reads the attribute and
\* stores the sum, and another thread may run in between.
CallRecord(w, c, is_hit) ==
    /\ workers[w].pc = "idle"
    /\ workers' = [workers EXCEPT ![w] = [pc |-> "load_count", cache |-> c,
                                           is_hit |-> is_hit, reg |-> 0]]
    /\ UNCHANGED <<loops, storage_table, available, binary_cache, files, store_path, full, mem_state,
                   cached_paths,
                   metrics, dht, now, nextId, resp, uploads>>

\* self.request_count ... (read)
LoadCount(w) ==
    /\ workers[w].pc = "load_count"
    /\ workers' = [workers EXCEPT ![w].pc = "store_count",
                                  ![w].reg = metrics[workers[w].cache].request_count]
    /\ UNCHANGED <<loops, storage_table, available, binary_cache, files, store_path, full, mem_state,
                   cached_paths,
                   metrics, dht, now, nextId, resp, uploads>>

\* ... += 1 (write)
StoreCount(w) ==
    /\ workers[w].pc = "store_count"
    /\ metrics' = [metrics EXCEPT ![workers[w].cache].request_count = workers[w].reg + 1]
    /\ workers' = [workers EXCEPT ![w].pc = "load_kind"]
    /\ UNCHANGED <<loops, storage_table, available, binary_cache, files, store_path, full, mem_state,
                   cached_paths,
                   dht, now, nextId, resp, uploads>>

\* self.hit_count or self.miss_count ... (read)
LoadKind(w) ==
    /\ workers[w].pc = "load_kind"
    /\ workers' = [workers EXCEPT ![w].pc = "store_kind",
                      ![w].reg = IF workers[w].is_hit
                                 THEN metrics[workers[w].cache].hit_count
                                 ELSE metrics[workers[w].cache].miss_count]
    /\ UNCHANGED <<loops, storage_table, available, binary_cache, files, store_path, full, mem_state,
                   cached_paths,
                   metrics, dht, now, nextId, resp, uploads>>

\* ... += 1 (write)
StoreKind(w) ==
    /\ workers[w].pc = "store_kind"
    /\ metrics' = IF workers[w].is_hit
                  THEN [metrics EXCEPT ![workers[w].cache].hit_count = workers[w].reg + 1]
                  ELSE [metrics EXCEPT ![workers[w].cache].miss_count = workers[w].reg + 1]
    /\ workers' = [workers EXCEPT ![w].pc = "done"]
    /\ UNCHANGED <<loops, storage_table, available, binary_cache, files, store_path, full, mem_state,
                   cached_paths,
                   dht, now, nextId, resp, uploads>>

WorkersNext ==
    \/ \E w \in Workers, c \in Caches, is_hit \in BOOLEAN : CallRecord(w, c, is_hit)
    \/ \E w \in Workers : LoadCount(w)
    \/ \E w \in Workers : StoreCount(w)
    \/ \E w \in Workers : LoadKind(w)
    \/ \E w \in Workers : StoreKind(w)

SpecWorkers == Init /\ [][WorkersNext]_vars

C7_PrivateCacheAuth ==
    \A c \in Caches : binary_cache[c].access = "private" =>
        /\ \A r \in CacheInfoReplies(c, NoAuth) : r.status = 401
        /\ \A sh \in StoreHashes : \A r \in HeadReplies(c, sh, NoAuth) : r.status = 401
        /\ \A u \in Users, d \in Caches \ {c} :
              /\ \A r \in CacheInfoReplies(c, Credentials(u, TokenOf(d))) :
                    r.status = 401
              /\ \A sh \in StoreHashes :
                    \A r \in HeadReplies(c, sh, Credentials(u, TokenOf(d))) :
                        r.status = 401
        /\ \A u \in Users :
              /\ \A r \in CacheInfoReplies(c, Credentials(u, TokenOf(c))) :
                    r.status = 200
              /\ \A sh \in StoreHashes : StorePathGet(c, sh, "") # 0 =>
                    \A r \in HeadReplies(c, sh, Credentials(u, TokenOf(c))) :
                        r.status = 200

\* ------------------------------------------------------ records and files
\* the files of a back-end whose name starts with "<file_hash>.nar."
NarFilesOf(s, file_hash) == {f \in Listing(files, s) : f.stem = file_hash}

\* C1: every store-path record has exactly one file whose name starts with
\* "<file_hash>.nar." on the back-end it names.
C1_RecordHasOneFile ==
    \A i \in 1..Len(store_path) :
        Cardinality(NarFilesOf(store_path[i].storage_id, store_path[i].file_hash)) = 1

\* C3: a garbage-collector pass on a cache whose retention is -1 removes no
\* file that has a store-path record and deletes no store-path record.
C3_UnlimitedRetentionKeepsAll ==
    [][\A c \in Caches :
        (/\ resp'.op = "gc"
         /\ binary_cache[c].retention = -1
         /\ \E entries \in Listings(files, StoragesOf(c), 1) :
               CollectGarbage(c, entries))
        => /\ store_path' = store_path
           /\ \A i \in 1..Len(store_path) :
                 NarFilesOf(store_path[i].storage_id, store_path[i].file_hash)
                 \subseteq Listing(files', store_path[i].storage_id)
      ]_vars

\* ----------------------------------------------------------------- narinfo
\* the fingerprint a client computes from a served narinfo: the References
\* value is the whitespace-separated list of references
ServedFingerprint(n) ==
    fingerprint(SelectSeq(n.References, LAMBDA x : x # " "),
                n.StorePath, n.NarHash, n.NarSize)

\* the signature verifies against the key.pub on every back-end of the cache
Verifies(c, n) ==
    \A s \in StoragesSet(c) :
        n.Sig = Signed(files[s][KeyPub].data, ServedFingerprint(n))

\* C9: the Sig of every narinfo a cache serves, from an owned record, a
\* sibling record or a peer, is a signature with the cache's key over the
\* fingerprint of the StorePath, NarHash, NarSize and References it serves.
C9_SigOverServedFields ==
    \A c \in Caches, sh \in StoreHashes, env \in PeerEnvs :
        \A r \in NarinfoReplies(c, sh, GoodAuth(c), env) :
            r.status = 200 => Verifies(c, r.narinfo)

\* C10: when the cache owns a record for the store hash, GET
\* /<store_hash>.narinfo is answered 200 with the narinfo of that record and
\* makes no DHT get and no peer request.
C10_OwnedRecordFirst ==
    \A c \in Caches, sh \in StoreHashes, env \in PeerEnvs :
        StorePathGet(c, sh, "") # 0 =>
            \A r \in NarinfoReplies(c, sh, GoodAuth(c), env) :
                /\ r.status = 200
                /\ r.narinfo.StorePath = "/nix/store/" \o PackageName(sh,
                       store_path[StorePathGet(c, sh, "")].store_suffix)
                /\ r.gets = 0 /\ r.pings = 0

\* ------------------------------------------------- the upload life cycle
Done(n) == uploads[n].st \in {"completed", "aborted"}

C6_AbortRemovesOrRejects ==
    [][\A c \in Caches, n \in UploadIds :
        (resp'.op = "abort" /\ Abort(c, n)) =>
            IF ManagerFind(files, c, IdStr(n)) # {}
            THEN /\ resp'.status = 200
                 /\ \A s \in StoragesSet(c) : StorageFind(files', s, IdStr(n)) = {}
                 /\ store_path' = store_path
            ELSE /\ resp'.status = 400
                 /\ files' = files
                 /\ store_path' = store_path
      ]_vars

\* an Abort has just removed the reserved file of an upload
C6_Witness ==
    /\ resp = Response("abort", 200)
    /\ \E n \in UploadIds :
          /\ uploads[n].st = "aborted"
          /\ \A s \in Storages : StorageFind(files, s, IdStr(n)) = {}

\* C8: on a private cache a PUT that does not carry the cache token is
\* answered 401 and leaves every file as it was.
C8_PutNeedsToken ==
    [][\A c \in Caches, n \in UploadIds, body \in Bodies, auth \in CacheAuths :
        (/\ resp'.op = "put"
         /\ binary_cache[c].access = "private"
         /\ \A u \in Users : auth # Credentials(u, TokenOf(c))
         /\ PutBody(c, n, body, auth))
        => resp'.status = 401 /\ files' = files
      ]_vars

\* ------------------------------------------------------ reference closures
\* the rows of cache c whose file was created inside the retention window
FreshRows(c) ==
    {i \in 1..Len(store_path) :
        /\ store_path[i].storage_id \in StoragesSet(c)
        /\ \E f \in NarFilesOf(store_path[i].storage_id, store_path[i].file_hash) :
              InsideRetention(files[store_path[i].storage_id][f].mtime,
                              binary_cache[c].retention, now)}

\* the rows of cache c reachable from the rows R through references
RECURSIVE RefClosure(_, _)
RefClosure(c, R) ==
    LET more == {j \in 1..Len(store_path) :
                    /\ store_path[j].storage_id \in StoragesSet(c)
                    /\ \E i \in R :
                          PackageName(store_path[j].store_hash,
                                      store_path[j].store_suffix)
                          \in Range(RowRefs(store_path[i]))}
    IN  IF more \subseteq R THEN R ELSE RefClosure(c, R \cup more)

\* C2: after a garbage-collector pass on a cache, every artifact reachable
\* through references, over a chain of any length, from an artifact created
\* inside the retention window still has its record and its file, whatever
\* order the files were listed in.
C2_ClosurePreserved ==
    [][\A c \in Caches :
        (/\ resp'.op = "gc"
         /\ \E entries \in Listings(files, StoragesOf(c), 1) :
               CollectGarbage(c, entries))
        => \A i \in RefClosure(c, FreshRows(c)) :
              /\ store_path[i] \in Range(store_path')
              /\ NarFilesOf(store_path[i].storage_id, store_path[i].file_hash)
                 \subseteq Listing(files', store_path[i].storage_id)
      ]_vars

\* --------------------------------------------------------- sibling records
\* the narinfo of the record at row i, as the cache that owns it serves it
RecordNarinfos(i) ==
    {get_narinfo(files, store_path[i], f) :
        f \in StorageFind(files, store_path[i].storage_id, store_path[i].file_hash)}

\* n is the narinfo m with its Sig replaced by a signature with cache c's key
\* over the fingerprint of m
ReSigned(c, n, m) ==
    /\ [n EXCEPT !.Sig = NoSig] = [m EXCEPT !.Sig = NoSig]
    /\ \A s \in StoragesSet(c) :
          n.Sig = Signed(files[s][KeyPriv].data, ServedFingerprint(m))

\* C11: when the serving cache has no record for a store hash and another
\* cache of the node has one, GET /<store_hash>.narinfo is answered 200 with
\* that record's narinfo re-signed with the serving cache's key, makes no DHT
\* get and no peer request, and is recorded as one miss.
C11_SiblingReSigned ==
    \A c \in Caches, sh \in StoreHashes, env \in PeerEnvs :
        (StorePathGet(c, sh, "") = 0 /\ StorePathFind(sh, "") # 0) =>
            \A r \in NarinfoReplies(c, sh, GoodAuth(c), env) :
                /\ r.status = 200
                /\ \E m \in RecordNarinfos(StorePathFind(sh, "")) :
                      ReSigned(c, r.narinfo, m)
                /\ r.gets = 0 /\ r.pings = 0
                /\ r.recs = <<FALSE>>

\* -------------------------------------------------------------- peer choice
\* the descriptors of the peers the overlay lists for a store hash
Listed(d, sh) ==
    {kv[2] : kv \in {e \in d : /\ e[1].kind = "cache"
                               /\ <<HashKey(sh), IdValue(e[1].name)>> \in d}}

\* latency * LATENCY_WEIGHT + load_score * LOAD_SCORE_WEIGHT, times ten
Score(info, env) ==
    IF info.has_metrics
    THEN env.latency[info.id] * LATENCY_WEIGHT_10 + info.load_score * LOAD_SCORE_WEIGHT_10
    ELSE Inf

\* C13: get_remote_cache_url returns the URL of an alive peer of minimum
\* score among the peers the overlay lists for the store hash, in whatever
\* order they are listed, and none when no listed peer is alive.
C13_MinimumScorePeer ==
    \A sh \in StoreHashes, env \in RemoteEnvs :
        LET r == get_remote_cache_url(dht, sh, env)
            alive == {i \in Listed(dht, sh) : i.id \in env.alive}
        IN  IF alive = {} THEN r.best = ""
            ELSE \E x \in alive :
                    /\ x.url = r.best
                    /\ \A y \in alive : ~ Lt(Score(y, env), Score(x, env))

\* C14: the URL get_remote_cache_url returns belongs to a listed peer that
\* answered the ping of that call, and every listed peer that has a
\* descriptor is pinged, whether or not the pings before it failed.
C14_PingBeforeSelect ==
    \A sh \in StoreHashes, env \in RemoteEnvs :
        LET r == get_remote_cache_url(dht, sh, env)
        IN  /\ r.best # "" =>
                \E i \in Listed(dht, sh) : i.url = r.best /\ i.id \in env.alive
            /\ r.pings = Cardinality(Listed(dht, sh))

\* a call in which the first listed peer fails its ping and the second is
\* returned
C14_Witness ==
    /\ resp = Response("narinfo", 200)
    /\ \E sh \in StoreHashes, env \in RemoteEnvs :
          /\ env.first \notin env.alive
          /\ env.first \in {i.id : i \in Listed(dht, sh)}
          /\ get_remote_cache_url(dht, sh, env).best # ""

\* ---------------------------------------------------------- cross-peer miss
\* the node holds no record of the store hash / of the file hash
NoLocalRecord(sh, fh) == StorePathFind(sh, fh) = 0

\* C12: a GET /<store_hash>.narinfo resolved through a peer leaves, under
\* the URL of the narinfo it returns, the peer it was fetched from; a GET of
\* a URL noted that way on the cache, which holds no local copy, while the
\* peer answers, is answered 200 with the bytes that peer serves.
C12_CrossPeerFetch ==
    /\ \A c \in Caches, sh \in StoreHashes, env \in RemoteEnvs :
          NoLocalRecord(sh, "") =>
             \A r \in NarinfoReplies(c, sh, GoodAuth(c), env) :
                r.status = 200 =>
                   [path |-> r.narinfo.URL,
                    url |-> get_remote_cache_url(dht, sh, env).best] \in r.cached
    /\ \A c \in Caches, env \in RemoteEnvs :
          \A e \in cached_paths[c] :
             (NoLocalRecord("", e.path.stem) /\ env.status = 200) =>
                \A r \in NarReplies(c, e.path.stem, e.path.ext, GoodAuth(c), env) :
                   r.status = 200 /\ r.body = PeerNar(e.url, e.path)

\* a narinfo resolved through a peer, then its nar fetched from that peer
C12_Witness ==
    /\ resp = Response("nar", 200)
    /\ \E c \in Caches : metrics[c].miss_count = 2 /\ cached_paths[c] = {}

\* ---------------------------------------------------------------- re-signing
\* C15: parsing a well-formed narinfo a peer serves, signing it and emitting
\* it again leaves every field but Sig as it was, also when the narinfo has
\* no references.
C15_ReSignKeepsFields ==
    \A c \in Caches, q \in Peers, sh \in StoreHashes :
        LET n == PeerNarinfo(q, sh)
        IN  ParsedOk(parse_narinfo_text(n)) =>
               \A s \in StoragesSet(c) :
                  [narinfo_dict_to_bytes(sign(files[s][KeyPriv].data, n))
                      EXCEPT !.Sig = NoSig]
                  = [n EXCEPT !.Sig = NoSig]

\* ------------------------------------------------------------------ metrics
\* C16: a record_request call raises request_count by exactly one, and after
\* any sequence of calls hit_count + miss_count = request_count.
C16_CountersAddUp ==
    \A c \in Caches :
        /\ metrics[c].hit_count + metrics[c].miss_count = metrics[c].request_count
        /\ \A is_hit \in BOOLEAN :
              LET m == record_request(metrics[c], is_hit)
              IN  /\ m.request_count = metrics[c].request_count + 1
                  /\ m.hit_count + m.miss_count = m.request_count

\* a cache has recorded a hit and a miss
C16_Witness ==
    \E c \in Caches : metrics[c].hit_count = 1 /\ metrics[c].miss_count = 1

\* C17: when k record_request calls of concurrent request workers of a
\* cache have all returned, its request_count is k and hit_count +
\* miss_count = request_count, however the workers were interleaved.
C17_NoLostUpdate ==
    (\A w \in Workers : workers[w].pc = "done") =>
        \A c \in Caches :
            /\ metrics[c].request_count
               = Cardinality({w \in Workers : workers[w].cache = c})
            /\ metrics[c].hit_count + metrics[c].miss_count = metrics[c].request_count

\* ---------------------------------------------------------------- placement
\* ordered lists of two or three distinct back-ends
StorageLists ==
    {l \in [1 .. 2 -> Storages] \cup [1 .. 3 -> Storages] :
        \A i, j \in DOMAIN l : i # j => l[i] # l[j]}

AllFull(sts, fl) == \A k \in 1 .. Len(sts) : sts[k] \in fl

\* the first back-end of the list that is not full
FirstFree(sts, fl) ==
    CHOOSE k \in 1 .. Len(sts) :
        /\ sts[k] \notin fl
        /\ \A j \in 1 .. (k - 1) : sts[j] \in fl

\* the back-end that holds the file of the n-th upload, if any
HolderOf(fs, n) == {s \in Storages : \E codec \in Codecs : NarFile(IdStr(n), codec) \in DOMAIN fs[s]}

\* C18: whatever the strategy and the number of back-ends, _choose_storage
\* returns a back-end that is not full, and raises when all back-ends are
\* full; no upload file is created on a full back-end.
C18_NeverOnFullBackend ==
    /\ \A c \in Caches :
          LET row == binary_cache[c]
              ch == choose_storage(c, row.strategy, full, row.strategy_state, files)
          IN  /\ ch.ok => ch.storage \notin full
              /\ AllFull(StoragesOf(c), full) => ~ch.ok
    /\ \A sts \in StorageLists, ps \in PlaceStates :
          LET r == StrategyFunc(ps.strategy, sts, full, ps.state, files)
          IN  /\ r.pick # 0 => sts[r.pick] \notin full
              /\ AllFull(sts, full) => r.pick = 0
    /\ \A n \in UploadIds : HolderOf(files, n) \cap full = {}

\* an upload was placed on the second back-end of c1 because the first is full
C18_Witness ==
    /\ "s1" \in full
    /\ "s2" \notin full
    /\ HolderOf(files, 1) = {"s2"}

\* C19: a selection of a round-robin cache with N >= 2 back-ends and cursor
\* i takes back-end i mod N, or the first non-full back-end in list order
\* when that one is full, and moves the cursor one position on; N
\* consecutive writes with no back-end full use each back-end once.
C19_RoundRobin ==
    /\ [][\A n \in UploadIds :
            LET sts == StoragesOf("c1")
                i == binary_cache["c1"].strategy_state.index % Len(sts)
            IN  (/\ binary_cache["c1"].strategy = "round-robin"
                 /\ HolderOf(files, n) = {}
                 /\ HolderOf(files', n) # {}
                 /\ CacheOfStorage(CHOOSE s \in HolderOf(files', n) : TRUE) = "c1")
                => /\ HolderOf(files', n)
                      = {IF sts[i + 1] \in full THEN sts[FirstFree(sts, full)]
                         ELSE sts[i + 1]}
                   /\ binary_cache'["c1"].strategy_state.index % Len(sts)
                      = (i + 1) % Len(sts)]_vars
    /\ [](\A sts \in StorageLists : \A i \in 0 .. 3 :
            LET r == round_robin(sts, full, [NoState EXCEPT !.index = i])
            IN  /\ r.state.index % Len(sts) = (i + 1) % Len(sts)
                /\ ~AllFull(sts, full) =>
                      r.pick = IF sts[(i % Len(sts)) + 1] \in full
                               THEN FirstFree(sts, full)
                               ELSE (i % Len(sts)) + 1)
    /\ []((/\ binary_cache["c1"].strategy = "round-robin"
           /\ full \cap {"s1", "s2"} = {})
          => \A n, m \in UploadIds :
                (/\ n < m
                 /\ HolderOf(files, n) # {} /\ HolderOf(files, n) \subseteq {"s1", "s2"}
                 /\ HolderOf(files, m) # {} /\ HolderOf(files, m) \subseteq {"s1", "s2"}
                 /\ \A k \in (n + 1) .. (m - 1) :
                       HolderOf(files, k) \cap {"s1", "s2"} = {})
                => HolderOf(files, n) # HolderOf(files, m))

\* two consecutive writes of round-robin cache c1, no back-end full, landed
\* on its two back-ends in list order
C19_Witness ==
    /\ binary_cache["c1"].strategy = "round-robin"
    /\ full = {}
    /\ HolderOf(files, 1) = {"s1"}
    /\ HolderOf(files, 2) = {"s2"}

\* p_i - used_i / sum(used) * 100, multiplied by sum(used)
Deficit(sts, state, fs, i) ==
    state.split[i] * TotalUsed(fs, sts, 1) - 100 * get_used_space(fs, sts[i])

\* C20: a selection of a split cache takes a back-end of greatest deficit,
\* or the first non-full back-end when that one is full, and does not fail
\* while some back-end is not full.
C20_SplitGreatestDeficit ==
    LET sts == StoragesOf("c1")
        row == binary_cache["c1"]
        ch == choose_storage("c1", row.strategy, full, row.strategy_state, files)
    IN  (row.strategy = "split" /\ ~AllFull(sts, full)) =>
            /\ ch.ok
            /\ \E i \in 1 .. Len(sts) :
                  /\ \A j \in 1 .. Len(sts) :
                        Deficit(sts, row.strategy_state, files, i)
                        >= Deficit(sts, row.strategy_state, files, j)
                  /\ ch.storage = IF sts[i] \in full THEN sts[FirstFree(sts, full)]
                                  ELSE sts[i]

\* ----------------------------------------------------------- administration
\* C21: after any sequence of cache create, cache update and configuration
\* load, a cache whose strategy is split has one stored split percentage per
\* back-end, and the percentages sum to 100.
C21_SplitSumsTo100 ==
    \A c \in DOMAIN binary_cache :
        binary_cache[c].strategy = "split" =>
            /\ Len(binary_cache[c].strategy_state.split) = Len(StoragesOf(c))
            /\ SumSeq(binary_cache[c].strategy_state.split) = 100

\* ------------------------------------------------------------- free space
\* C22: is_full() of a local back-end is true exactly when used / available
\* exceeds 0.95, that is when used * 100 > 95 * available.
C22_FullAboveThreshold ==
    \A s \in Storages :
        is_full(files, available, s)
        <=> get_used_space(files, s) * 100 > 95 * available[s]

\* ------------------------------------------------------------ storage full
\* C23: when every back-end is full, Initiate is answered with a 5xx status
\* and leaves no trace: no file is created, no store-path record is written
\* and nothing is published to the overlay.
C23_StorageFullIs5xx ==
    [][(nextId' = nextId + 1 /\ full = Storages) =>
          /\ resp'.status \in 500 .. 599
          /\ files' = files
          /\ store_path' = store_path
          /\ dht' = dht]_vars

\* the part of C23 that the handler keeps: a refused Initiate leaves no trace
StorageFullNoTrace ==
    [][(nextId' = nextId + 1 /\ full = Storages) =>
          /\ files' = files
          /\ store_path' = store_path
          /\ dht' = dht]_vars

\* --------------------------------------------------------------- one pass
\* the rows of the store_path table held on the back-ends of cache c
RowsOf(c) == {i \in 1..Len(store_path) : store_path[i].storage_id \in StoragesSet(c)}

\* C24: one pass of the garbage collector keeps the record and the file of
\* every artifact created inside the retention window and of every artifact
\* such an artifact refers to, directly or through others, and removes the
\* record and the file of every other recorded artifact, whatever its codec
\* (caches with a retention period).
C24_SinglePass ==
    [][\A c \in Caches :
        (/\ binary_cache[c].retention > 0
         /\ resp'.op = "gc"
         /\ \E entries \in Listings(files, StoragesOf(c), 1) :
               CollectGarbage(c, entries))
        => \A i \in RowsOf(c) :
              LET s == store_path[i].storage_id
                  mine == NarFilesOf(s, store_path[i].file_hash)
              IN  IF i \in RefClosure(c, FreshRows(c))
                  THEN /\ store_path[i] \in Range(store_path')
                       /\ mine \subseteq Listing(files', s)
                  ELSE /\ store_path[i] \notin Range(store_path')
                       /\ mine \cap Listing(files', s) = {}
      ]_vars

\* ---------------------------------------------------------- unknown files
\* the file f of back-end s has no store-path record on that back-end
NoRecord(s, f) ==
    \A i \in 1..Len(store_path) :
        ~(store_path[i].storage_id = s /\ store_path[i].file_hash = f.stem)

\* C25: a garbage-collector pass removes a file that has no store-path
\* record exactly when its name does not begin with "key" and the file is
\* older than the freshness window; key.priv, key.pub and a reserved upload
\* file inside the window stay.
C25_UnknownFiles ==
    [][\A c \in Caches :
        (/\ resp'.op = "gc"
         /\ \E entries \in Listings(files, StoragesOf(c), 1) :
               CollectGarbage(c, entries))
        => \A s \in StoragesSet(c) : \A f \in Listing(files, s) :
              NoRecord(s, f) =>
                 (f \notin Listing(files', s)
                  <=> /\ f.stem # "key"
                      /\ (now - files[s][f].mtime) * TickSeconds
                         > CONSIDERED_NEW_FILE_AGE)
      ]_vars

\* after a pass the file of the first reserved upload is gone, the file of
\* the second, reserved inside the window, is there, and so are the keys
C25_Witness ==
    /\ resp.op = "gc"
    /\ uploads[1].st = "reserved" /\ HolderOf(files, 1) = {}
    /\ uploads[2].st = "reserved" /\ HolderOf(files, 2) # {}
    /\ \A s \in Storages : {KeyPriv, KeyPub} \subseteq Listing(files, s)

\* ------------------------------------------------------------ cache delete
\* C26: after a cache is deleted, its row, the rows of its back-ends and the
\* store-path records held on its back-ends no longer exist.
C26_DeleteRemovesAll ==
    [][\A c \in Caches :
          (c \in DOMAIN binary_cache /\ CacheDelete(c)) =>
              /\ c \notin DOMAIN binary_cache'
              /\ StoragesOfAll({c}) \cap storage_table' = {}
              /\ \A i \in 1..Len(store_path') :
                    store_path'[i].storage_id \notin StoragesOfAll({c})]_vars

\* ------------------------------------------------------ narinfo statuses
\* C27: GET /<hash>.narinfo answers only with 200, 401 or 404; a failed peer
\* ping or a failed peer narinfo fetch is a miss, never a 5xx.
C27_NarinfoStatuses ==
    resp.op = "narinfo" => resp.status \in {200, 401, 404}

\* the half about pings: when no listed peer answers the ping, the remote
\* branch answers 404
PingFailureIsMiss ==
    \A c \in Caches, sh \in StoreHashes, env \in RemoteEnvs :
        env.alive = {} =>
            \A r \in RemoteNarinfoReplies(c, sh, env) : r.status = 404

\* ------------------------------------------------- one record per file hash
\* C28: after any sequence of uploads there is at most one store-path record
\* per file_hash on each back-end.
C28_OneRecordPerFileHash ==
    \A i, j \in 1..Len(store_path) :
        (/\ store_path[i].file_hash = store_path[j].file_hash
         /\ store_path[i].storage_id = store_path[j].storage_id) => i = j

\* -------------------------------------------------------- owner mappings
\* the owner mappings store_hash -> cache_id of cache c in an overlay
Mappings(d, c) == {h \in StoreHashes : <<HashKey(h), IdValue(c)>> \in d}

\* C29: a store_hash -> cache_id mapping is published only for public caches:
\* for a private cache neither Complete nor sync puts one; for a public cache
\* Complete puts it and sync puts it for every store path the cache holds.
C29_PublicOnly ==
    /\ [](\A c \in Caches : binary_cache[c].access = "private" => Mappings(dht, c) = {})
    /\ [][\A c \in Caches : binary_cache[c].access = "public" =>
            /\ \A n \in UploadIds, sh \in StoreHashes :
                  (Complete(c, n, sh, "pkg", "fa", <<>>) /\ resp'.status = 200) =>
                      sh \in Mappings(dht', c)
            /\ \A load \in 0 .. MaxLoad :
                  Sync(c, load) =>
                      \A i \in 1..Len(store_path) :
                          store_path[i].storage_id \in StoragesSet(c) =>
                              store_path[i].store_hash \in Mappings(dht', c)]_vars

\* both caches hold a store path, the mappings have expired, and the caches
\* have synchronized since: the public one is listed again
C29_Witness ==
    /\ resp.op = "sync"
    /\ \A c \in Caches : get_store_paths(store_path, c) # <<>>
    /\ Mappings(dht, "c2") # {}
    /\ \A f \in {NarFile(IdStr(n), "xz") : n \in UploadIds} :
          \A c \in Caches : <<FileKey(f), IdValue(c)>> \notin dht

\* ------------------------------------------------- strategy state, threads
\* C30: for every interleaving of two concurrent Initiate requests on a
\* round-robin cache with two back-ends, none full, every selection advances
\* the persisted cursor by one and the two uploads land on different
\* back-ends.
C30_NoLostCursorUpdate ==
    /\ [][\A w \in Workers :
            (/\ NewFile(w)
             /\ workers[w].cache = "c1"
             /\ binary_cache["c1"].strategy = "round-robin"
             /\ full \cap {"s1", "s2"} = {})
            => binary_cache'["c1"].strategy_state.index % 2
               = (binary_cache["c1"].strategy_state.index + 1) % 2]_vars
    /\ []((/\ binary_cache["c1"].strategy = "round-robin"
           /\ full \cap {"s1", "s2"} = {}
           /\ HolderOf(files, 1) # {} /\ HolderOf(files, 1) \subseteq {"s1", "s2"}
           /\ HolderOf(files, 2) # {} /\ HolderOf(files, 2) \subseteq {"s1", "s2"})
          => HolderOf(files, 1) # HolderOf(files, 2))

\* ------------------------------------------------- cached_paths, threads
\* C31: for every interleaving of concurrent GET /nar requests for the same
\* memoized path, and of a remote narinfo lookup, no request finds the entry at
\* its membership check and misses it at its lookup, and no request fails
\* because another request evicted the entry in between: a request is
\* answered 200, 404 (not memoized) or 502 (peer unreachable).
C31_NoTornLookup ==
    resp.op = "nar" => resp.status \in {200, 404, 502}

\* ------------------------------------------------ PUT, Complete and Abort
\* C32: under every interleaving of a PUT body with a Complete or an Abort of
\* the same upload id, once the Complete or Abort has answered 200 no file
\* named <id>.nar.<codec> exists on any back-end.
C32_NoResurrectedSlot ==
    \A n \in UploadIds :
        uploads[n].st \in {"completed", "aborted"} => HolderOf(files, n) = {}

\* ------------------------------------------------------ eviction of the memo
\* C33: the memoized nar path is evicted after a successful remote fetch and
\* only then: a GET /nar answered 200 by a peer leaves the map without the
\* path, a fetch that failed leaves the map as it was, and a path that is
\* neither local nor memoized is answered 404 with no DHT or peer request.
C33_EvictOnSuccessOnly ==
    \A c \in Caches, env \in PeerEnvs :
        \A r \in NarReplies(c, "fr", "xz", GoodAuth(c), env) :
            /\ (r.status = 200 /\ r.pings > 0) =>
                  \A e \in r.cached : e.path # NarFile("fr", "xz")
            /\ r.status # 200 => r.cached = cached_paths[c]
            /\ (\A e \in cached_paths[c] : e.path # NarFile("fr", "xz")) =>
                  r.status = 404 /\ r.gets = 0 /\ r.pings = 0

\* a peer has just served the memoized path and no cache memoizes it now
C33_Witness ==
    /\ resp = Response("nar", 200)
    /\ store_path = <<>>
    /\ \A c \in Caches : cached_paths[c] = {}

\* --------------------------------------------------------- multiplexer read
\* C34: a multiplexer read of a name is served by the first back-end in list
\* order that holds the name, whatever the placement strategy and whether or
\* not back-ends are full; reading key.priv succeeds whenever a back-end of the
\* cache holds it.
C34_ReadFollowsFind ==
    \A c \in Caches :
        LET row == binary_cache[c]
            r == ManagerRead(c, row.strategy, full, row.strategy_state, files, KeyPriv)
            first == FirstHolder(files, StoragesOf(c), "key", 1)
        IN  first # 0 => r.ok /\ r.storage = StoragesOf(c)[first]

\* ------------------------------------------------ one record per response
\* C35: every request the cache process answers (GET, HEAD or PUT, with any
\* status) causes exactly one record_request call, so request_count grows by
\* one with each answered request.
C35_EveryResponseRecorded ==
    [][(resp'.op \in {"info", "narinfo", "nar", "head", "put"} /\ resp'.status # 0)
       => \E c \in Caches :
             metrics' = [metrics EXCEPT ![c].request_count = @ + 1,
                                        ![c].hit_count = metrics'[c].hit_count,
                                        ![c].miss_count = metrics'[c].miss_count]]_vars

\* ------------------------------------------------- who writes store_path
\* C36: store-path records are inserted only by a successful Complete and
\* removed only by the garbage collector: GET, HEAD, PUT, Initiate,
\* Upload-URL, Abort and a rejected Complete leave the records unchanged.
C36_RecordsFrame ==
    [][/\ Len(store_path') > Len(store_path) =>
             /\ resp' = Response("complete", 200)
             /\ store_path = SubSeq(store_path', 1, Len(store_path))
             /\ Len(store_path') = Len(store_path) + 1
       /\ (store_path' # store_path /\ Len(store_path') <= Len(store_path)) =>
             resp'.op = "gc"
       /\ (\/ resp'.op \in {"info", "narinfo", "nar", "head", "put", "initiate",
                            "upload-url", "abort", "post"}
           \/ (resp'.op = "complete" /\ resp'.status # 200)) =>
             store_path' = store_path]_vars

\* an upload was aborted while a record existed
C36_Witness ==
    /\ resp = Response("abort", 200)
    /\ Len(store_path) = 1

\* ------------------------------------------------------- loops keep running
\* C37: the background loops swallow errors and proceed: after a garbage
\* collector pass or an advertisement that raised, the loop is still running,
\* so that the next period's pass or advertisement takes place.
C37_LoopsSurvive ==
    \A c \in Caches : loops[c].gc /\ loops[c].adv

\* ------------------------------------------------- the queue of the sweep
\* C38: phase 2 of collect_garbage terminates for every list of expired rows:
\* a row is re-enqueued at most once, so the pass dequeues at most twice per
\* expired row.
C38_SweepTerminates ==
    \A c \in Caches : \A entries \in Listings(files, StoragesOf(c), 1) :
        LET scan == GcScan(entries, 1, binary_cache[c].retention, now,
                           [files |-> files, healthy |-> {}, expired |-> <<>>])
        IN  GcSweep(scan.expired, {}, scan.healthy, scan.files, store_path).dequeues
                <= 2 * Len(scan.expired)

\* a pass has just removed every record of the cache: each row was dequeued,
\* re-enqueued and dequeued again
C38_Witness ==
    /\ resp = Response("gc", 200)
    /\ store_path = <<>>
    /\ \A h \in GcPackages : NarFile("f" \o h, "xz") \notin Listing(files, "s3")

\* ------------------------------------------- narinfo and placement state
\* C39: serving a narinfo never changes placement state: a GET of a narinfo,
\* on the own, the sibling or the remote path, leaves the strategy state of
\* every cache (the round-robin cursor) and its persisted copy unchanged.
C39_NarinfoKeepsPlacement ==
    [][resp'.op = "narinfo"
       => /\ mem_state' = mem_state
          /\ \A c \in Caches :
                binary_cache'[c].strategy_state = binary_cache[c].strategy_state]_vars

\* ------------------------------------------------ a peer whenever one lives
\* C40: get_remote_cache_url returns none only when no listed peer with a
\* descriptor answers the ping: whenever a listed peer is alive the URL of an
\* alive listed peer is returned, whether or not its descriptor carries
\* metrics or a load score.
C40_AlivePeerReturned ==
    \A sh \in StoreHashes, env \in RemoteEnvs :
        LET r == get_remote_cache_url(dht, sh, env)
            alive == {i \in Listed(dht, sh) : i.id \in env.alive}
        IN  alive # {} => r.best \in {x.url : x \in alive}

============================================================================
